---- MODULE Spec2Model ----
(***************************************************************************)
(* kubectl-graph: the graph store (pkg/graph/graph.go), the resource       *)
(* producers (core, networking, route), the NewGraph ingest loop and the   *)
(* root linking of the cypher output.                                      *)
(*                                                                         *)
(* Strings are TLA+ strings; a Go map is a function with a finite domain;  *)
(* a Go slice is a sequence; a *Relationship is the pair <<from UID,       *)
(* index>> of its slot in Relationships[from UID] (slots are only ever     *)
(* appended, so the pair is stable for the life of the graph).             *)
(***************************************************************************)
EXTENDS Integers, Sequences, FiniteSets, TLC

VARIABLES
    Nodes,          \* Graph.Nodes: cluster -> namespace -> UID -> Node
    Relationships,  \* Graph.Relationships: from UID -> sequence of Relationship
    handles,        \* log of the direct Relationship calls: arguments and *Relationship returned
    written,        \* the <<call, key>> pairs set with Attribute through the handle of that call
    ncalls,         \* number of Node and Relationship calls made so far
    last,           \* the call that produced this state
    objs,           \* NewGraph: the input list
    clientset,      \* the live API: the resources whose requests fail
    idx,            \* NewGraph: number of objects the loop has finished
    errs,           \* NewGraph: the errs slice
    log,            \* the finished Unstructured calls: the object and the error ("" for nil)
    prev,           \* the graph as it was when the last Unstructured call started
    pc,             \* "calls", or where NewGraph is: "loop", "returned", "panic"
    aggregate,      \* the error NewGraph returned (<<>> for nil)
    db,             \* the database the cypher output was loaded into
    first           \* what an earlier NewGraph call on the same objects returned

storeVars == <<Nodes, Relationships>>

callVars == <<handles, written, ncalls, last>>

ingestVars == <<objs, clientset, idx, errs, log, prev, pc, aggregate>>

outVars == <<db, first>>

vars == <<Nodes, Relationships, handles, written, ncalls, last,
          objs, clientset, idx, errs, log, prev, pc, aggregate, db, first>>

\* ------------------------------------------------------------------ bounds
MaxCalls == 3

MaxWrites == 2

\* ---------------------------------------------------------------- helpers
EmptyMap == [k \in {} |-> k]

Put(f, k, v) == [x \in DOMAIN f \cup {k} |-> IF x = k THEN v ELSE f[x]]

Get(f, k, default) == IF k \in DOMAIN f THEN f[k] ELSE default

Range(s) == {s[i] : i \in DOMAIN s}

\* The host name of the API server the clientset talks to.
Hostname == "host"

\* ------------------------------------------------- schema.GroupVersionKind
\* schema.ParseGroupVersion on the apiVersion strings that occur: no "/" puts
\* the whole string into Version, one "/" splits group and version.
ParseGroupVersion(apiVersion) ==
    CASE apiVersion = "" -> [Group |-> "", Version |-> ""]
      [] apiVersion = "v1" -> [Group |-> "", Version |-> "v1"]
      [] apiVersion = "apps/v1" -> [Group |-> "apps", Version |-> "v1"]
      [] apiVersion = "networking.k8s.io/v1" ->
            [Group |-> "networking.k8s.io", Version |-> "v1"]
      [] apiVersion = "networking.k8s.io" ->
            [Group |-> "", Version |-> "networking.k8s.io"]
      [] apiVersion = "route.openshift.io/v1" ->
            [Group |-> "route.openshift.io", Version |-> "v1"]
      [] apiVersion = "kubectl-graph/v1" ->
            [Group |-> "kubectl-graph", Version |-> "v1"]
      [] apiVersion = "tenancy.example.io/v1" ->
            [Group |-> "tenancy.example.io", Version |-> "v1"]

FromAPIVersionAndKind(apiVersion, kind) ==
    LET gv == ParseGroupVersion(apiVersion)
    IN  [Group |-> gv.Group, Version |-> gv.Version, Kind |-> kind]

GroupVersionString(gvk) ==
    IF gvk.Group # "" THEN gvk.Group \o "/" \o gvk.Version ELSE gvk.Version

\* gvk.ToAPIVersionAndKind(): <<apiVersion, kind>>
ToAPIVersionAndKind(gvk) ==
    IF gvk.Group = "" /\ gvk.Version = "" /\ gvk.Kind = ""
    THEN <<"", "">>
    ELSE <<GroupVersionString(gvk), gvk.Kind>>

\* gvk.GroupKind().String()
GroupKindString(gvk) ==
    IF gvk.Group = "" THEN gvk.Kind ELSE gvk.Kind \o "." \o gvk.Group

\* ------------------------------------------------------------- the store
\* A graph value: the two maps of the Graph struct.
Graph(nodes, rels) == [Nodes |-> nodes, Relationships |-> rels]

EmptyGraph == Graph(EmptyMap, EmptyMap)

\* metav1.ObjectMeta as the store reads it.
ObjectMeta(uid, name, namespace) ==
    [UID |-> uid, Name |-> name, Namespace |-> namespace, ClusterName |-> "",
     OwnerReferences |-> <<>>, Labels |-> EmptyMap, Annotations |-> EmptyMap]

\* obj.GetClusterName() after the default of Graph.Node has been applied.
ClusterOf(obj) == IF obj.ClusterName = "" THEN Hostname ELSE obj.ClusterName

\* Graph.Node with an unconditional make of the namespace map.
EnsureMapsAlways(nodes, cluster, namespace) ==
    LET n1 == IF cluster \in DOMAIN nodes THEN nodes
              ELSE Put(nodes, cluster, EmptyMap)
    IN  Put(n1, cluster, Put(n1[cluster], namespace, EmptyMap))

\* The two `if g.Nodes[..] == nil { make(..) }` statements of Graph.Node.
EnsureMaps(nodes, cluster, namespace) ==
    LET n1 == IF cluster \in DOMAIN nodes THEN nodes
              ELSE Put(nodes, cluster, EmptyMap)
    IN  IF namespace \in DOMAIN n1[cluster] THEN n1
        ELSE Put(n1, cluster, Put(n1[cluster], namespace, EmptyMap))

\* g.Nodes[cluster][namespace][uid] = node
StoreNode(nodes, cluster, namespace, uid, node) ==
    Put(nodes, cluster,
        Put(nodes[cluster], namespace, Put(nodes[cluster][namespace], uid, node)))

\* The fields of a Node that Graph.Node fills in.
NodeFields(node) ==
    [APIVersion |-> node.APIVersion, Kind |-> node.Kind, Name |-> node.Name,
     Namespace |-> node.Namespace, UID |-> node.UID]

\* Every (cluster, namespace, UID) slot that holds a record.
Slots(nodes) ==
    UNION {UNION {{<<c, ns, u>> : u \in DOMAIN nodes[c][ns]}
                   : ns \in DOMAIN nodes[c]} : c \in DOMAIN nodes}

NodeAt(nodes, slot) == nodes[slot[1]][slot[2]][slot[3]]

\* The records stored under one UID, in whatever slot.
RecordsOf(nodes, uid) == {NodeAt(nodes, s) : s \in {t \in Slots(nodes) : t[3] = uid}}

StoredUIDs(nodes) == {s[3] : s \in Slots(nodes)}

\* Labels and annotations of the record about to be stored: an empty incoming
\* map takes over the non-empty map of the record it replaces.
CarryForward(prior, incoming) ==
    IF DOMAIN incoming = {} /\ DOMAIN prior # {} THEN prior ELSE incoming

\* The nil *Node.
NilNode == [APIVersion |-> "", Kind |-> "", Name |-> "", Namespace |-> "", UID |-> ""]

IsNil(node) == node = NilNode

\* Index of the first relationship of rs that points at toUID, 0 when none.
FindRelationship(rs, toUID) ==
    IF \E i \in DOMAIN rs : rs[i].To.UID = toUID
    THEN CHOOSE i \in DOMAIN rs :
            /\ rs[i].To.UID = toUID
            /\ \A j \in DOMAIN rs : rs[j].To.UID = toUID => i <= j
    ELSE 0

\* A variant of FindRelationship that also compares the label.
FindRelationshipByLabel(rs, label, toUID) ==
    IF \E i \in DOMAIN rs : rs[i].To.UID = toUID /\ rs[i].Type = label
    THEN CHOOSE i \in DOMAIN rs :
            /\ rs[i].To.UID = toUID /\ rs[i].Type = label
            /\ \A j \in DOMAIN rs :
                  (rs[j].To.UID = toUID /\ rs[j].Type = label) => i <= j
    ELSE 0

\* Graph.Relationship with a dedup that takes the label of the latest call.
GraphRelationshipLastLabel(g, from, label, to) ==
    LET rs == Get(g.Relationships, from.UID, <<>>)
        i  == FindRelationship(rs, to.UID)
        relationship ==
            [From |-> [UID |-> from.UID, Kind |-> from.Kind],
             Type |-> label,
             To   |-> [UID |-> to.UID, Kind |-> to.Kind],
             Attr |-> EmptyMap]
    IN  IF IsNil(from) \/ IsNil(to)
        THEN [g |-> g, r |-> <<>>, panic |-> TRUE]
        ELSE IF i # 0
        THEN [g |-> [g EXCEPT !.Relationships[from.UID][i].Type = label],
              r |-> <<from.UID, i>>, panic |-> FALSE]
        ELSE [g |-> [g EXCEPT !.Relationships =
                        Put(@, from.UID, Append(rs, relationship))],
              r |-> <<from.UID, Len(rs) + 1>>, panic |-> FALSE]

\* Graph.Relationship with a dedup that distinguishes labels.
GraphRelationshipPerLabel(g, from, label, to) ==
    LET rs == Get(g.Relationships, from.UID, <<>>)
        i  == FindRelationshipByLabel(rs, label, to.UID)
        relationship ==
            [From |-> [UID |-> from.UID, Kind |-> from.Kind],
             Type |-> label,
             To   |-> [UID |-> to.UID, Kind |-> to.Kind],
             Attr |-> EmptyMap]
    IN  IF IsNil(from) \/ IsNil(to)
        THEN [g |-> g, r |-> <<>>, panic |-> TRUE]
        ELSE IF i # 0
        THEN [g |-> g, r |-> <<from.UID, i>>, panic |-> FALSE]
        ELSE [g |-> [g EXCEPT !.Relationships =
                        Put(@, from.UID, Append(rs, relationship))],
              r |-> <<from.UID, Len(rs) + 1>>, panic |-> FALSE]

\* Graph.Relationship: the relationship from -> to, created when there is none;
\* r is the *Relationship returned, panic the nil dereference of from or to.
GraphRelationship(g, from, label, to) ==
    LET rs == Get(g.Relationships, from.UID, <<>>)
        i  == FindRelationship(rs, to.UID)
        relationship ==
            [From |-> [UID |-> from.UID, Kind |-> from.Kind],
             Type |-> label,
             To   |-> [UID |-> to.UID, Kind |-> to.Kind],
             Attr |-> EmptyMap]
    IN  IF IsNil(from) \/ IsNil(to)
        THEN [g |-> g, r |-> <<>>, panic |-> TRUE]
        ELSE IF i # 0
        THEN [g |-> g, r |-> <<from.UID, i>>, panic |-> FALSE]
        ELSE [g |-> [g EXCEPT !.Relationships =
                        Put(@, from.UID, Append(rs, relationship))],
              r |-> <<from.UID, Len(rs) + 1>>, panic |-> FALSE]

\* Attribute on a Relationship held by value: the write lands on a copy.
AttributeOnCopy(g, r, key, value) == g

\* Relationship.Attribute: r.Attr[key] = value, through the pointer r.
Attribute(g, r, key, value) ==
    [g EXCEPT !.Relationships[r[1]][r[2]].Attr = Put(@, key, value)]

\* The relationship a handle points at.
Deref(rels, r) == rels[r[1]][r[2]]

\* Every stored relationship, as a set.
AllRelationships(rels) == UNION {Range(rels[u]) : u \in DOMAIN rels}

RECURSIVE GraphNode(_, _, _)
RECURSIVE OwnerReferences(_, _, _, _, _)

\* The loop over obj.GetOwnerReferences() in Graph.Node, from index i on.
OwnerReferences(g, obj, kind, node, i) ==
    IF i > Len(obj.OwnerReferences) THEN g
    ELSE LET ownerRef == obj.OwnerReferences[i]
             Link(o) == GraphRelationship(o.g, o.node, kind, node).g
         IN  OwnerReferences(
                 Link(GraphNode(g,
                          FromAPIVersionAndKind(ownerRef.APIVersion, ownerRef.Kind),
                          ObjectMeta(ownerRef.UID, ownerRef.Name, obj.Namespace))),
                 obj, kind, node, i + 1)

\* Graph.Node: node is the *Node returned.
GraphNode(g, gvk, obj) ==
    LET cluster == ClusterOf(obj)
        ak      == ToAPIVersionAndKind(gvk)
        Record(prior) ==
            [APIVersion |-> ak[1], Kind |-> ak[2], Name |-> obj.Name,
             Namespace |-> obj.Namespace, UID |-> obj.UID,
             Labels |-> CarryForward(prior.Labels, obj.Labels),
             Annotations |-> CarryForward(prior.Annotations, obj.Annotations)]
        Store(nodes, node) ==
            IF GroupKindString(gvk) = "Namespace"
            THEN [g |-> [g EXCEPT !.Nodes = nodes], node |-> node]
            ELSE [g |-> OwnerReferences(
                            [g EXCEPT !.Nodes =
                                StoreNode(nodes, cluster, obj.Namespace, obj.UID, node)],
                            obj, ak[2], node, 1),
                  node |-> node]
        Upsert(nodes) ==
            Store(nodes, Record(Get(nodes[cluster][obj.Namespace], obj.UID,
                                    [Labels |-> EmptyMap, Annotations |-> EmptyMap])))
    IN  Upsert(EnsureMaps(g.Nodes, cluster, obj.Namespace))

\* ------------------------------------------------------------------ ToUID
RECURSIVE Join(_, _)
\* strings.Join(input, sep)
Join(input, sep) ==
    IF Len(input) = 0 THEN ""
    ELSE IF Len(input) = 1 THEN input[1]
    ELSE input[1] \o sep \o Join(Tail(input), sep)

\* ToUID: the MD5 digest of the "-"-joined input, printed as five hex groups.
\* The digest is taken as collision-free: it is written as the byte string it
\* was computed from.
ToUID(input) == "md5(" \o Join(input, "-") \o ")"

\* ------------------------------------------------- results of the producers
\* A producer returns (*Node, error); g is the graph it leaves behind and
\* panic tells that it did not return at all (nil pointer dereference).
Ok(g, node) == [g |-> g, node |-> node, nil |-> FALSE, err |-> "", panic |-> FALSE]

NoNode(g) == [g |-> g, node |-> NilNode, nil |-> TRUE, err |-> "", panic |-> FALSE]

Fail(g, err) == [g |-> g, node |-> NilNode, nil |-> TRUE, err |-> err, panic |-> FALSE]

Panic(g) == [g |-> g, node |-> NilNode, nil |-> TRUE, err |-> "", panic |-> TRUE]

\* ------------------------------------------------------------ the live API
\* metav1.LabelSelector: MatchLabels, or an expression with an operator the
\* API does not know (Valid = FALSE); Nil is the nil pointer.
NilSelector == [Nil |-> TRUE, Valid |-> TRUE, MatchLabels |-> EmptyMap]

Selector(matchLabels) == [Nil |-> FALSE, Valid |-> TRUE, MatchLabels |-> matchLabels]

InvalidSelector == [Nil |-> FALSE, Valid |-> FALSE, MatchLabels |-> EmptyMap]

\* metav1.LabelSelectorAsSelector
LabelSelectorAsSelector(ps) ==
    IF ps.Valid THEN [err |-> "", selector |-> ps.MatchLabels]
    ELSE [err |-> "invalid label selector", selector |-> EmptyMap]

\* selector.Matches(labels)
Matches(selector, labels) ==
    \A k \in DOMAIN selector : k \in DOMAIN labels /\ labels[k] = selector[k]

\* An object of the cluster as the typed client returns it.
Object(uid, name, namespace, labels, owners, spec) ==
    [APIVersion |-> "", Kind |-> "", UID |-> uid, Name |-> name,
     Namespace |-> namespace, ClusterName |-> "", OwnerReferences |-> owners,
     Labels |-> labels, Annotations |-> EmptyMap, Convertible |-> TRUE, Spec |-> spec]

NilRef == [Nil |-> TRUE]

\* v1.ObjectReference to a pod, as the endpoints controller writes it.
PodRef(uid, name, namespace) ==
    [Nil |-> FALSE, APIVersion |-> "", Kind |-> "Pod", Name |-> name,
     Namespace |-> namespace, UID |-> uid]

\* The pods of the cluster, in the order the API lists them.
ClusterPods ==
    << Object("pod-a", "web-1", "ns1", Put(EmptyMap, "app", "web"),
              <<[APIVersion |-> "apps/v1", Kind |-> "ReplicaSet", Name |-> "web",
                 UID |-> "rs-1"]>>,
              [Containers |-> <<"web", "proxy">>, Phase |-> "Running"]),
       Object("pod-b", "db-1", "ns2", EmptyMap, <<>>,
              [Containers |-> <<"web">>, Phase |-> "Running"]),
       Object("pod-c", "web-2", "ns1", Put(EmptyMap, "app", "web"), <<>>,
              [Containers |-> <<"web">>, Phase |-> "Pending"]) >>

ClusterNamespaces ==
    << Object("ns-uid-1", "ns1", "", Put(EmptyMap, "team", "a"), <<>>, [Phase |-> "Active"]),
       Object("ns-uid-2", "ns2", "", EmptyMap, <<>>, [Phase |-> "Active"]) >>

ClusterServices ==
    << Object("svc-1", "web", "ns1", EmptyMap, <<>>,
              [Type |-> "ClusterIP", ExternalName |-> ""]),
       Object("svc-2", "nodeport", "ns1", EmptyMap, <<>>,
              [Type |-> "NodePort", ExternalName |-> ""]),
       Object("svc-3", "ext", "ns1", EmptyMap, <<>>,
              [Type |-> "ExternalName", ExternalName |-> "example.com"]),
       Object("svc-4", "lb", "ns1", EmptyMap, <<>>,
              [Type |-> "LoadBalancer", ExternalName |-> ""]),
       Object("svc-5", "edge", "ns2", EmptyMap, <<>>,
              [Type |-> "LoadBalancer", ExternalName |-> ""]) >>

\* The service "lb" has no Endpoints object: its get answers "not found".
ClusterEndpoints ==
    << Object("ep-1", "web", "ns1", EmptyMap, <<>>,
              [Subsets |-> << <<[TargetRef |-> PodRef("pod-a", "web-1", "ns1")],
                               [TargetRef |-> NilRef]>> >>]),
       Object("ep-2", "edge", "ns2", EmptyMap, <<>>,
              [Subsets |-> << <<[TargetRef |-> PodRef("pod-b", "db-1", "ns2")]>> >>]) >>

Resources == {"pods", "namespaces", "services", "endpoints"}

\* clientset...Get(ctx, name, options) on one of the sequences above; api.down
\* holds the resources whose requests fail.
LiveGet(api, resource, items, namespace, name) ==
    IF resource \in api.down THEN [err |-> resource \o " unavailable"]
    ELSE IF \E i \in DOMAIN items :
                items[i].Namespace = namespace /\ items[i].Name = name
         THEN [err |-> "",
               obj |-> items[CHOOSE i \in DOMAIN items :
                           items[i].Namespace = namespace /\ items[i].Name = name]]
         ELSE [err |-> resource \o " not found"]

\* A list of the running pods that leaves the label selector out.
ListRunningPodsAnyLabel(api, namespace, selector) ==
    IF "pods" \in api.down THEN [err |-> "pods unavailable", items |-> <<>>]
    ELSE LET Listed(p) == /\ namespace \in {"", p.Namespace}
                          /\ p.Spec.Phase = "Running"
         IN  [err |-> "", items |-> SelectSeq(ClusterPods, Listed)]

\* clientset.CoreV1().Pods(namespace).List with a label selector and the
\* field selector status.phase=Running
ListRunningPods(api, namespace, selector) ==
    IF "pods" \in api.down THEN [err |-> "pods unavailable", items |-> <<>>]
    ELSE LET Listed(p) == /\ namespace \in {"", p.Namespace}
                          /\ p.Spec.Phase = "Running"
                          /\ Matches(selector, p.Labels)
         IN  [err |-> "", items |-> SelectSeq(ClusterPods, Listed)]

\* clientset.CoreV1().Namespaces().List with a label selector
ListNamespaces(api, selector) ==
    IF "namespaces" \in api.down THEN [err |-> "namespaces unavailable", items |-> <<>>]
    ELSE LET Listed(n) == Matches(selector, n.Labels)
         IN  [err |-> "", items |-> SelectSeq(ClusterNamespaces, Listed)]

\* FromUnstructured: the typed object, or the conversion error.
FromUnstructured(unstr) ==
    IF unstr.Convertible THEN [err |-> "", obj |-> unstr]
    ELSE [err |-> "Failed to convert", obj |-> unstr]

\* ------------------------------------------------------------ CoreV1Graph
\* `return node, nil` for the node a Graph.Node call returned.
Returned(n) == Ok(n.g, n.node)

\* CoreV1Graph.Namespace
CoreV1Namespace(g, namespace) ==
    Returned(GraphNode(g, FromAPIVersionAndKind("", "Namespace"),
                       [namespace EXCEPT !.UID = namespace.Name,
                                         !.Namespace = namespace.Name]))

\* A Container producer that keys the node by the container name alone.
ContainerByName(g, pod, name) ==
    Returned(GraphNode(g, FromAPIVersionAndKind("", "Container"),
                       ObjectMeta(ToUID(<<name>>), name, pod.Namespace)))

\* CoreV1Graph.Container
Container(g, pod, name) ==
    Returned(GraphNode(g, FromAPIVersionAndKind("", "Container"),
                       ObjectMeta(ToUID(<<pod.UID, name>>), name, pod.Namespace)))

RECURSIVE PodContainers(_, _, _, _)
\* The loop over pod.Spec.Containers in CoreV1Graph.Pod, from index i on.
PodContainers(g, pod, n, i) ==
    IF i > Len(pod.Spec.Containers) THEN g
    ELSE LET Link(c) == GraphRelationship(c.g, n, "Container", c.node).g
         IN  PodContainers(Link(Container(g, pod, pod.Spec.Containers[i])), pod, n, i + 1)

\* CoreV1Graph.Pod
CoreV1Pod(g, pod) ==
    LET Containers(n) == Ok(PodContainers(n.g, pod, n.node, 1), n.node)
    IN  Containers(GraphNode(g, FromAPIVersionAndKind("", "Pod"), pod))

\* CoreV1Graph.ObjectReference
ObjectReference(g, ref) ==
    Returned(GraphNode(g, FromAPIVersionAndKind(ref.APIVersion, ref.Kind),
                       ObjectMeta(ref.UID, ref.Name, ref.Namespace)))

RECURSIVE Flatten(_)
\* The addresses of all subsets, in the order the two nested loops visit them.
Flatten(subsets) ==
    IF subsets = <<>> THEN <<>> ELSE Head(subsets) \o Flatten(Tail(subsets))

RECURSIVE EndpointsAddresses(_, _, _, _)
\* The loops over obj.Subsets and subset.Addresses in CoreV1Graph.Endpoints.
EndpointsAddresses(g, n, addresses, i) ==
    IF i > Len(addresses) THEN g
    ELSE IF addresses[i].TargetRef.Nil
         THEN EndpointsAddresses(g, n, addresses, i + 1)
         ELSE LET Link(t) == GraphRelationship(t.g, n, t.node.Kind, t.node).g
              IN  EndpointsAddresses(Link(ObjectReference(g, addresses[i].TargetRef)),
                                     n, addresses, i + 1)

\* The Endpoints producer without the nil check on address.TargetRef: the
\* addresses before the first one without a target reference are linked, then
\* the nil reference is read.
CoreV1EndpointsUnchecked(g, obj) ==
    LET addresses == Flatten(obj.Spec.Subsets)
        Nils == {i \in DOMAIN addresses : addresses[i].TargetRef.Nil}
        Before == SubSeq(addresses, 1,
                         (CHOOSE i \in Nils : \A j \in Nils : i <= j) - 1)
        Addresses(n) ==
            IF Nils = {} THEN Ok(EndpointsAddresses(n.g, n.node, addresses, 1), n.node)
            ELSE Panic(EndpointsAddresses(n.g, n.node, Before, 1))
    IN  Addresses(GraphNode(g, FromAPIVersionAndKind("", "Endpoints"), obj))

\* CoreV1Graph.Endpoints
CoreV1Endpoints(g, obj) ==
    LET Addresses(n) ==
            Ok(EndpointsAddresses(n.g, n.node, Flatten(obj.Spec.Subsets), 1), n.node)
    IN  Addresses(GraphNode(g, FromAPIVersionAndKind("", "Endpoints"), obj))

\* CoreV1Graph.TypedLocalObjectReference: *obj.APIGroup is read without a nil
\* check.
TypedLocalObjectReference(g, ref, namespace) ==
    IF ref.APIGroupNil THEN Panic(g)
    ELSE Returned(GraphNode(g, FromAPIVersionAndKind("", ref.APIGroup),
                            ObjectMeta(ToUID(<<ref.APIGroup, ref.Kind, ref.Name>>),
                                       ref.Name, namespace)))

\* ServiceTypeClusterIP that takes the half-built Service out of the store
\* again when the Endpoints lookup fails.
ServiceTypeClusterIPUndo(g, api, obj) ==
    LET got == LiveGet(api, "endpoints", ClusterEndpoints, obj.Namespace, obj.Name)
        Without(ns) == [u \in DOMAIN ns \ {obj.UID} |-> ns[u]]
        Endpoints(n) ==
            IF got.err # ""
            THEN Fail([n.g EXCEPT !.Nodes[ClusterOf(obj)][obj.Namespace] = Without(@)],
                      got.err)
            ELSE LET Link(e) ==
                         Ok(GraphRelationship(e.g, n.node, "Endpoints", e.node).g, n.node)
                 IN  Link(CoreV1Endpoints(n.g, got.obj))
    IN  Endpoints(GraphNode(g, FromAPIVersionAndKind("", "Service"), obj))

\* CoreV1Graph.ServiceTypeClusterIP
ServiceTypeClusterIP(g, api, obj) ==
    LET got == LiveGet(api, "endpoints", ClusterEndpoints, obj.Namespace, obj.Name)
        Endpoints(n) ==
            IF got.err # "" THEN Fail(n.g, got.err)
            ELSE LET Link(e) ==
                         Ok(GraphRelationship(e.g, n.node, "Endpoints", e.node).g, n.node)
                 IN  Link(CoreV1Endpoints(n.g, got.obj))
    IN  Endpoints(GraphNode(g, FromAPIVersionAndKind("", "Service"), obj))

\* CoreV1Graph.ServiceTypeLoadBalancer
ServiceTypeLoadBalancer(g, api, obj) ==
    LET got == LiveGet(api, "endpoints", ClusterEndpoints, obj.Namespace, obj.Name)
        Endpoints(n) ==
            IF got.err # "" THEN Fail(n.g, got.err)
            ELSE LET Link(e) ==
                         Ok(GraphRelationship(e.g, n.node, "Endpoints", e.node).g, n.node)
                 IN  Link(CoreV1Endpoints(n.g, got.obj))
    IN  Endpoints(GraphNode(g, FromAPIVersionAndKind("", "Service"), obj))

\* ServiceTypeExternalName that keys the synthetic node by the namespace of the
\* Service as well.
ServiceTypeExternalNameScoped(g, obj) ==
    LET Link(n, e) == Ok(GraphRelationship(e.g, n.node, "ExternalName", e.node).g, n.node)
        External(n) ==
            Link(n, GraphNode(n.g, FromAPIVersionAndKind("", "ExternalName"),
                              ObjectMeta(ToUID(<<obj.Namespace, obj.Spec.ExternalName>>),
                                         obj.Spec.ExternalName, "")))
    IN  External(GraphNode(g, FromAPIVersionAndKind("", "Service"), obj))

\* CoreV1Graph.ServiceTypeExternalName
ServiceTypeExternalName(g, obj) ==
    LET Link(n, e) == Ok(GraphRelationship(e.g, n.node, "ExternalName", e.node).g, n.node)
        External(n) ==
            Link(n, GraphNode(n.g, FromAPIVersionAndKind("", "ExternalName"),
                              ObjectMeta(ToUID(<<obj.Spec.ExternalName>>),
                                         obj.Spec.ExternalName, "")))
    IN  External(GraphNode(g, FromAPIVersionAndKind("", "Service"), obj))

\* CoreV1Graph.Service
CoreV1Service(g, api, obj) ==
    CASE obj.Spec.Type = "ClusterIP" -> ServiceTypeClusterIP(g, api, obj)
      [] obj.Spec.Type = "LoadBalancer" -> ServiceTypeLoadBalancer(g, api, obj)
      [] obj.Spec.Type = "ExternalName" -> ServiceTypeExternalName(g, obj)
      [] OTHER -> NoNode(g)

\* The keys of the infos map of CoreV1Graph.Node.
InfoKinds == {"Architecture", "Runtime", "Kernel", "OSImage"}

\* The orders in which `range infos` may visit the four keys.
InfoOrders ==
    {o \in [1..4 -> InfoKinds] : \A i, j \in 1..4 : o[i] = o[j] => i = j}

RECURSIVE NodeInfos(_, _, _, _, _)
\* The loop over infos in CoreV1Graph.Node, visiting the keys in `order`.
NodeInfos(g, n, infos, order, i) ==
    IF i > Len(order) THEN g
    ELSE LET kind == order[i]
             info == infos[kind]
             Link(f) == GraphRelationship(f.g, n, kind, f.node).g
         IN  NodeInfos(Link(GraphNode(g, FromAPIVersionAndKind("kubectl-graph/v1", kind),
                                      ObjectMeta(ToUID(<<info>>), info, ""))),
                       n, infos, order, i + 1)

\* CoreV1Graph.Node
CoreV1Node(g, obj, order) ==
    LET Infos(n) == Ok(NodeInfos(n.g, n.node, obj.Spec, order, 1), n.node)
    IN  Infos(GraphNode(g, FromAPIVersionAndKind(obj.APIVersion, obj.Kind), obj))

\* CoreV1Graph.Unstructured
CoreV1Unstructured(g, api, unstr, order) ==
    IF unstr.Kind \notin {"Namespace", "Pod", "Endpoints", "Service", "Node"}
    THEN NoNode(g)
    ELSE LET c == FromUnstructured(unstr)
         IN  IF c.err # "" THEN Fail(g, c.err)
             ELSE CASE unstr.Kind = "Namespace" -> CoreV1Namespace(g, c.obj)
                    [] unstr.Kind = "Pod" -> CoreV1Pod(g, c.obj)
                    [] unstr.Kind = "Endpoints" -> CoreV1Endpoints(g, c.obj)
                    [] unstr.Kind = "Service" -> CoreV1Service(g, api, c.obj)
                    [] unstr.Kind = "Node" -> CoreV1Node(g, c.obj, order)

\* ------------------------------------------------------ NetworkingV1Graph
\* NetworkingV1Graph.Relationship
NetworkingRelationship(g, from, policyType, to) ==
    LET color == IF policyType = "Ingress" THEN "#34A853" ELSE "#EA4335"
        Paint(res) ==
            IF res.panic THEN [g |-> g, panic |-> TRUE]
            ELSE [g |-> Attribute(Attribute(res.g, res.r, "color", color),
                                  res.r, "style", "dashed"),
                  panic |-> FALSE]
    IN  Paint(IF policyType = "Ingress"
              THEN GraphRelationship(g, to, policyType, from)
              ELSE GraphRelationship(g, from, policyType, to))

\* NetworkingV1Graph.Host
Host(g, name) ==
    Returned(GraphNode(g, FromAPIVersionAndKind("networking.k8s.io", "Host"),
                       [ObjectMeta(ToUID(<<name>>), name, "")
                           EXCEPT !.ClusterName = "External"]))

\* NetworkingV1Graph.IPBlock
IPBlock(g, cidr) ==
    Returned(GraphNode(g, FromAPIVersionAndKind("networking.k8s.io", "IPBlock"),
                       [ObjectMeta(ToUID(<<cidr>>), cidr, "")
                           EXCEPT !.ClusterName = "External"]))

\* NetworkingV1Graph.IngressBackend
IngressBackend(g, api, obj, backend) ==
    IF ~backend.Service.Nil
    THEN LET got == LiveGet(api, "services", ClusterServices,
                            obj.Namespace, backend.Service.Name)
         IN  IF got.err # "" THEN Fail(g, got.err)
             ELSE CoreV1Service(g, api, got.obj)
    ELSE IF ~backend.Resource.Nil
         THEN TypedLocalObjectReference(g, backend.Resource, obj.Namespace)
         ELSE Fail(g, "backend is not supported yet")

RECURSIVE IngressPaths(_, _, _, _, _, _)
\* The loop over rule.HTTP.Paths in NetworkingV1Graph.Ingress.
IngressPaths(g, api, obj, n, paths, i) ==
    IF i > Len(paths) THEN Ok(g, n)
    ELSE LET Linked(r) ==
                 IF r.panic THEN Panic(r.g)
                 ELSE IngressPaths(r.g, api, obj, n, paths, i + 1)
             Backend(b) ==
                 IF b.panic \/ b.err # "" THEN b
                 ELSE Linked(NetworkingRelationship(b.g, b.node, "Ingress", n))
         IN  Backend(IngressBackend(g, api, obj, paths[i]))

RECURSIVE IngressRules(_, _, _, _, _)
\* The loop over obj.Spec.Rules in NetworkingV1Graph.Ingress.
IngressRules(g, api, obj, n, i) ==
    IF i > Len(obj.Spec.Rules) THEN Ok(g, n)
    ELSE LET rule == obj.Spec.Rules[i]
             Hosted(h) == NetworkingRelationship(h.g, n, "Ingress", h.node).g
             Paths(p) ==
                 IF p.panic \/ p.err # "" THEN p
                 ELSE IngressRules(Hosted(Host(p.g, rule.Host)), api, obj, n, i + 1)
         IN  Paths(IF rule.HTTPNil THEN Ok(g, n)
                   ELSE IngressPaths(g, api, obj, n, rule.Paths, 1))

\* NetworkingV1Graph.Ingress
Ingress(g, api, obj) ==
    LET Rules(n) == IngressRules(n.g, api, obj, n.node, 1)
    IN  Rules(GraphNode(g, FromAPIVersionAndKind(obj.APIVersion, obj.Kind), obj))

RECURSIVE PeerPods(_, _, _, _, _)
\* The loop `for _, pod := range pods.Items` of the peer producers.
PeerPods(g, n, policyType, pods, i) ==
    IF i > Len(pods) THEN g
    ELSE LET Link(p) == NetworkingRelationship(p.g, n, policyType, p.node).g
         IN  PeerPods(Link(CoreV1Pod(g, pods[i])), n, policyType, pods, i + 1)

RECURSIVE PeerNamespacePods(_, _, _, _, _, _, _)
\* The loop over namespaces.Items in NetworkPolicyPeerNamespaceAndPodSelector.
PeerNamespacePods(g, api, n, policyType, peer, namespaces, i) ==
    IF i > Len(namespaces) THEN Ok(g, n)
    ELSE LET s == LabelSelectorAsSelector(peer.PodSelector)
             Listed(pods) ==
                 IF pods.err # "" THEN Fail(g, pods.err)
                 ELSE PeerNamespacePods(PeerPods(g, n, policyType, pods.items, 1),
                                        api, n, policyType, peer, namespaces, i + 1)
         IN  IF s.err # "" THEN Fail(g, s.err)
             ELSE Listed(ListRunningPods(api, namespaces[i].Name, s.selector))

\* NetworkingV1Graph.NetworkPolicyPeerNamespaceAndPodSelector
NetworkPolicyPeerNamespaceAndPodSelector(g, api, obj, policyType, peer) ==
    LET s == LabelSelectorAsSelector(peer.NamespaceSelector)
        Listed(n, namespaces) ==
            IF namespaces.err # "" THEN Fail(n.g, namespaces.err)
            ELSE PeerNamespacePods(n.g, api, n.node, policyType, peer,
                                   namespaces.items, 1)
        Selected(n) ==
            IF s.err # "" THEN Fail(n.g, s.err)
            ELSE Listed(n, ListNamespaces(api, s.selector))
    IN  Selected(GraphNode(g, FromAPIVersionAndKind(obj.APIVersion, obj.Kind), obj))

RECURSIVE PeerNamespaces(_, _, _, _, _)
\* The loop over namespaces.Items in NetworkPolicyPeerNamespaceSelector.
PeerNamespaces(g, n, policyType, namespaces, i) ==
    IF i > Len(namespaces) THEN g
    ELSE LET Link(ns) == NetworkingRelationship(ns.g, n, policyType, ns.node).g
         IN  PeerNamespaces(Link(CoreV1Namespace(g, namespaces[i])),
                            n, policyType, namespaces, i + 1)

\* NetworkingV1Graph.NetworkPolicyPeerNamespaceSelector
NetworkPolicyPeerNamespaceSelector(g, api, obj, policyType, peer) ==
    LET s == LabelSelectorAsSelector(peer.NamespaceSelector)
        Listed(n, namespaces) ==
            IF namespaces.err # "" THEN Fail(n.g, namespaces.err)
            ELSE Ok(PeerNamespaces(n.g, n.node, policyType, namespaces.items, 1), n.node)
        Selected(n) ==
            IF s.err # "" THEN Fail(n.g, s.err)
            ELSE Listed(n, ListNamespaces(api, s.selector))
    IN  Selected(GraphNode(g, FromAPIVersionAndKind(obj.APIVersion, obj.Kind), obj))

\* NetworkingV1Graph.NetworkPolicyPeerPodSelector
NetworkPolicyPeerPodSelector(g, api, obj, policyType, peer) ==
    LET s == LabelSelectorAsSelector(peer.PodSelector)
        Listed(n, pods) ==
            IF pods.err # "" THEN Fail(n.g, pods.err)
            ELSE Ok(PeerPods(n.g, n.node, policyType, pods.items, 1), n.node)
        Selected(n) ==
            IF s.err # "" THEN Fail(n.g, s.err)
            ELSE Listed(n, ListRunningPods(api, obj.Namespace, s.selector))
    IN  Selected(GraphNode(g, FromAPIVersionAndKind(obj.APIVersion, obj.Kind), obj))

\* NetworkingV1Graph.NetworkPolicyPeerIPBlock
NetworkPolicyPeerIPBlock(g, obj, policyType, peer) ==
    LET Link(n, i) == Ok(NetworkingRelationship(i.g, n.node, policyType, i.node).g, n.node)
        Block(n) == Link(n, IPBlock(n.g, peer.IPBlock))
    IN  Block(GraphNode(g, FromAPIVersionAndKind(obj.APIVersion, obj.Kind), obj))

\* NetworkingV1Graph.NetworkPolicyPeer
NetworkPolicyPeer(g, api, obj, policyType, peer) ==
    CASE ~peer.NamespaceSelector.Nil /\ ~peer.PodSelector.Nil ->
            NetworkPolicyPeerNamespaceAndPodSelector(g, api, obj, policyType, peer)
      [] ~peer.NamespaceSelector.Nil /\ peer.PodSelector.Nil ->
            NetworkPolicyPeerNamespaceSelector(g, api, obj, policyType, peer)
      [] peer.NamespaceSelector.Nil /\ ~peer.PodSelector.Nil ->
            NetworkPolicyPeerPodSelector(g, api, obj, policyType, peer)
      [] peer.NamespaceSelector.Nil /\ peer.PodSelector.Nil /\ peer.IPBlock # "" ->
            NetworkPolicyPeerIPBlock(g, obj, policyType, peer)
      [] OTHER -> NoNode(g)

\* v1.NetworkPolicyPeer; IPBlock "" is the nil pointer.
Peer(namespaceSelector, podSelector, ipBlock) ==
    [NamespaceSelector |-> namespaceSelector, PodSelector |-> podSelector,
     IPBlock |-> ipBlock]

RECURSIVE PolicyPeers(_, _, _, _, _, _)
\* The loop over rule.From (rule.To) in NetworkingV1Graph.NetworkPolicy.
PolicyPeers(g, api, obj, policyType, peers, j) ==
    IF j > Len(peers) THEN NoNode(g)
    ELSE LET Checked(p) ==
                 IF p.err # "" THEN p
                 ELSE PolicyPeers(p.g, api, obj, policyType, peers, j + 1)
         IN  Checked(NetworkPolicyPeer(g, api, obj, policyType, peers[j]))

RECURSIVE PolicyRules(_, _, _, _, _, _)
\* The loop over obj.Spec.Ingress (obj.Spec.Egress): a rule without peers
\* gets the one peer with the empty pod selector.
PolicyRules(g, api, obj, policyType, rules, i) ==
    IF i > Len(rules) THEN NoNode(g)
    ELSE LET peers == IF Len(rules[i].Peers) = 0
                      THEN <<Peer(NilSelector, Selector(EmptyMap), "")>>
                      ELSE rules[i].Peers
             Checked(r) ==
                 IF r.err # "" THEN r
                 ELSE PolicyRules(r.g, api, obj, policyType, rules, i + 1)
         IN  Checked(PolicyPeers(g, api, obj, policyType, peers, 1))

RECURSIVE PolicyPods(_, _, _, _, _)
\* The loop over the pods the policy selects.
PolicyPods(g, obj, n, pods, i) ==
    IF i > Len(pods) THEN g
    ELSE LET Outbound(g1, pod) ==
                 IF Len(obj.Spec.Egress) # 0
                 THEN NetworkingRelationship(g1, pod, "Egress", n).g ELSE g1
             Inbound(p) ==
                 Outbound(IF Len(obj.Spec.Ingress) # 0
                          THEN NetworkingRelationship(p.g, p.node, "Ingress", n).g
                          ELSE p.g,
                          p.node)
         IN  PolicyPods(Inbound(CoreV1Pod(g, pods[i])), obj, n, pods, i + 1)

\* NetworkingV1Graph.NetworkPolicy
NetworkPolicy(g, api, obj) ==
    LET s == LabelSelectorAsSelector(obj.Spec.PodSelector)
        Outbound(n, eg) == IF eg.err # "" THEN eg ELSE Ok(eg.g, n.node)
        Inbound(n, in) ==
            IF in.err # "" THEN in
            ELSE Outbound(n, PolicyRules(in.g, api, obj, "Egress", obj.Spec.Egress, 1))
        Listed(n, pods) ==
            IF pods.err # "" THEN Fail(n.g, pods.err)
            ELSE Inbound(n, PolicyRules(PolicyPods(n.g, obj, n.node, pods.items, 1),
                                        api, obj, "Ingress", obj.Spec.Ingress, 1))
        Selected(n) ==
            IF s.err # "" THEN Fail(n.g, s.err)
            ELSE Listed(n, ListRunningPods(api, obj.Namespace, s.selector))
    IN  Selected(GraphNode(g, FromAPIVersionAndKind(obj.APIVersion, obj.Kind), obj))

\* NetworkingV1Graph.Unstructured
NetworkingV1Unstructured(g, api, unstr) ==
    IF unstr.Kind \notin {"Ingress", "NetworkPolicy"} THEN NoNode(g)
    ELSE LET c == FromUnstructured(unstr)
         IN  IF c.err # "" THEN Fail(g, c.err)
             ELSE IF unstr.Kind = "Ingress" THEN Ingress(g, api, c.obj)
                  ELSE NetworkPolicy(g, api, c.obj)

\* ------------------------------------------------------------ RouteV1Graph
\* RouteV1Graph.Route
Route(g, api, obj) ==
    LET got == LiveGet(api, "services", ClusterServices, obj.Namespace, obj.Spec.To)
        Linked(n, s, r) == IF r.panic THEN Panic(s.g) ELSE Ok(r.g, n.node)
        Service(n, s) ==
            IF s.err # "" THEN Fail(s.g, s.err)
            ELSE Linked(n, s, GraphRelationship(s.g, n.node, "Route", s.node))
        Looked(n) ==
            IF got.err # "" THEN Fail(n.g, got.err)
            ELSE Service(n, CoreV1Service(n.g, api, got.obj))
    IN  Looked(GraphNode(g, FromAPIVersionAndKind(obj.APIVersion, obj.Kind), obj))

\* ------------------------------------------------------ Graph.Unstructured
GraphUnstructured(g, api, unstr, order) ==
    LET Group(n) ==
            CASE unstr.APIVersion = "v1" -> CoreV1Unstructured(n.g, api, unstr, order)
              [] unstr.APIVersion = "networking.k8s.io/v1" ->
                    NetworkingV1Unstructured(n.g, api, unstr)
              [] OTHER -> NoNode(n.g)
    IN  Group(GraphNode(g, FromAPIVersionAndKind(unstr.APIVersion, unstr.Kind), unstr))

\* RouteV1Graph.Unstructured
RouteV1Unstructured(g, api, unstr) ==
    IF unstr.Kind # "Route" THEN NoNode(g)
    ELSE LET c == FromUnstructured(unstr)
         IN  IF c.err # "" THEN Fail(g, c.err) ELSE Route(g, api, c.obj)

\* The dispatcher with the route group added to the two groups of
\* Graph.Unstructured.
Dispatch(g, api, unstr, order) ==
    IF unstr.APIVersion = "route.openshift.io/v1"
    THEN LET Group(n) == RouteV1Unstructured(n.g, api, unstr)
         IN  Group(GraphNode(g, FromAPIVersionAndKind(unstr.APIVersion, unstr.Kind),
                             unstr))
    ELSE GraphUnstructured(g, api, unstr, order)

\* errors.NewAggregate: nil (the empty sequence) when there is no error.
NewAggregate(errlist) == SelectSeq(errlist, LAMBDA e : e # "")

\* ------------------------------------------------------- the cypher output
\* text/template ranges over a map in the sorted order of its keys; KeyRank
\* is the position of the cluster and namespace names that occur.
KeyRank(k) ==
    CASE k = "" -> 0
      [] k = "External" -> 1
      [] k = "host" -> 2
      [] k = "ns1" -> 3
      [] k = "ns2" -> 4

RECURSIVE SortedKeys(_)
SortedKeys(keys) ==
    IF keys = {} THEN <<>>
    ELSE LET k == CHOOSE x \in keys : \A y \in keys : KeyRank(x) <= KeyRank(y)
         IN  <<k>> \o SortedKeys(keys \ {k})

\* The database the script is loaded into: nodes are keyed by <<label, UID>>
\* and carry the properties set ON CREATE, edges are <<from, type, to>>.
EmptyDatabase == [nodes |-> EmptyMap, edges |-> {}]

\* Nothing written yet: no script loaded into the database, no statements
\* rendered in either format.
NoOutput ==
    [loaded |-> FALSE, nodes |-> EmptyMap, edges |-> {},
     cypher |-> <<>>, graphviz |-> <<>>]

\* MERGE (node:label {UID: uid}) ON CREATE SET props
MergeNode(d, label, uid, props) ==
    IF <<label, uid>> \in DOMAIN d.nodes THEN d
    ELSE [d EXCEPT !.nodes = Put(@, <<label, uid>>, props)]

RECURSIVE MergeNodes(_, _, _, _, _)
\* `range .` over the nodes of one namespace: a namespaced node gets the
\* Namespace property, a node of the namespace "" does not.
MergeNodes(d, cluster, namespace, nodes, uids) ==
    IF uids = {} THEN d
    ELSE LET uid  == CHOOSE u \in uids : TRUE
             node == nodes[uid]
             props == IF namespace # ""
                      THEN [ClusterName |-> cluster, Namespace |-> node.Namespace,
                            Name |-> node.Name]
                      ELSE [ClusterName |-> cluster, Name |-> node.Name]
         IN  MergeNodes(MergeNode(d, node.Kind, node.UID, props),
                        cluster, namespace, nodes, uids \ {uid})

RECURSIVE MergeNamespaces(_, _, _, _, _)
\* `range $namespace, $node := $namespaces` of the first transaction.
MergeNamespaces(d, cluster, namespaces, keys, i) ==
    IF i > Len(keys) THEN d
    ELSE LET namespace == keys[i]
             d1 == IF namespace # ""
                   THEN MergeNode(d, "Namespace", namespace,
                                  [ClusterName |-> cluster, Name |-> namespace])
                   ELSE d
         IN  MergeNamespaces(
                 MergeNodes(d1, cluster, namespace, namespaces[namespace],
                            DOMAIN namespaces[namespace]),
                 cluster, namespaces, keys, i + 1)

RECURSIVE MergeClusters(_, _, _, _)
\* `range $cluster, $namespaces := .Nodes` of the first transaction.
MergeClusters(d, nodes, keys, i) ==
    IF i > Len(keys) THEN d
    ELSE LET cluster == keys[i]
         IN  MergeClusters(
                 MergeNamespaces(MergeNode(d, "Cluster", cluster, [Name |-> cluster]),
                                 cluster, nodes[cluster],
                                 SortedKeys(DOMAIN nodes[cluster]), 1),
                 nodes, keys, i + 1)

\* MATCH (from:Kind),(to:Kind) WHERE the UIDs match MERGE (from)-[:Type]->(to),
\* for every stored relationship: no row, and no edge, when a node is missing.
MergeRelationships(d, rels) ==
    [d EXCEPT !.edges = @ \cup
        {<<<<r.From.Kind, r.From.UID>>, r.Type, <<r.To.Kind, r.To.UID>>>> :
            r \in {x \in AllRelationships(rels) :
                      /\ <<x.From.Kind, x.From.UID>> \in DOMAIN d.nodes
                      /\ <<x.To.Kind, x.To.UID>> \in DOMAIN d.nodes}}]

\* ()-[]->(node)
Incoming(d, key) == \E e \in d.edges : e[3] = key

\* MATCH (cl:Cluster) WHERE cl.UID = cluster MATCH (node) WHERE
\* node.ClusterName = cl.Name AND node.Namespace IS NULL AND NOT(()-[]->(node))
\* MERGE (node)-[:Cluster]->(cl)
LinkCluster(d, cluster) ==
    LET cl == <<"Cluster", cluster>>
    IN  IF cl \notin DOMAIN d.nodes THEN d
        ELSE [d EXCEPT !.edges = @ \cup
                {<<key, "Cluster", cl>> :
                    key \in {k \in DOMAIN d.nodes :
                                /\ "ClusterName" \in DOMAIN d.nodes[k]
                                /\ d.nodes[k].ClusterName = d.nodes[cl].Name
                                /\ "Namespace" \notin DOMAIN d.nodes[k]
                                /\ ~Incoming(d, k)}}]

\* A linking statement that writes the namespace into the nodes it links:
\* ... MERGE (node)-[:Namespace]->(ns) SET node.Root = ns.UID
LinkNamespaceSetRoot(d, namespace) ==
    LET ns == <<"Namespace", namespace>>
        Linked(k) == /\ "Namespace" \in DOMAIN d.nodes[k]
                     /\ d.nodes[k].Namespace = d.nodes[ns].Name
                     /\ ~Incoming(d, k)
    IN  IF ns \notin DOMAIN d.nodes THEN d
        ELSE [nodes |-> [k \in DOMAIN d.nodes |->
                            IF Linked(k) THEN Put(d.nodes[k], "Root", namespace)
                            ELSE d.nodes[k]],
              edges |-> d.edges \cup
                            {<<key, "Namespace", ns>> :
                                key \in {k \in DOMAIN d.nodes : Linked(k)}}]

\* MATCH (ns:Namespace) WHERE ns.UID = namespace MATCH (node) WHERE
\* node.Namespace = ns.Name AND NOT(()-[]->(node)) MERGE (node)-[:Namespace]->(ns)
LinkNamespace(d, namespace) ==
    LET ns == <<"Namespace", namespace>>
    IN  IF ns \notin DOMAIN d.nodes THEN d
        ELSE [d EXCEPT !.edges = @ \cup
                {<<key, "Namespace", ns>> :
                    key \in {k \in DOMAIN d.nodes :
                                /\ "Namespace" \in DOMAIN d.nodes[k]
                                /\ d.nodes[k].Namespace = d.nodes[ns].Name
                                /\ ~Incoming(d, k)}}]

RECURSIVE LinkNamespaces(_, _, _)
\* `range $namespace, $node := $namespaces` of the second transaction.
LinkNamespaces(d, keys, i) ==
    IF i > Len(keys) THEN d
    ELSE LinkNamespaces(IF keys[i] # "" THEN LinkNamespace(d, keys[i]) ELSE d,
                        keys, i + 1)

RECURSIVE LinkClusters(_, _, _, _)
\* `range $cluster, $namespaces := .Nodes` of the second transaction.
LinkClusters(d, nodes, keys, i) ==
    IF i > Len(keys) THEN d
    ELSE LinkClusters(LinkNamespaces(LinkCluster(d, keys[i]),
                                     SortedKeys(DOMAIN nodes[keys[i]]), 1),
                      nodes, keys, i + 1)

\* The database after the script rendered from g has run on an empty one.
Cypher(g) ==
    LinkClusters(
        MergeRelationships(
            MergeClusters(EmptyDatabase, g.Nodes, SortedKeys(DOMAIN g.Nodes), 1),
            g.Relationships),
        g.Nodes, SortedKeys(DOMAIN g.Nodes), 1)

\* ------------------------------------------------- the rendered statements
\* A rendered statement: what it is and the values the template puts in.
Statement(stmt, args) == [stmt |-> stmt, args |-> args]

RECURSIVE RangeKeys(_)
\* The keys of a map keyed by UID in the order a `range` visits them; one
\* fixed order stands for the sorted order of the UIDs.
RangeKeys(keys) ==
    IF keys = {} THEN <<>>
    ELSE LET k == CHOOSE x \in keys : TRUE
         IN  <<k>> \o RangeKeys(keys \ {k})

\* `range .` of the first transaction over the nodes of one namespace: one
\* MERGE (node:Kind {UID: ...}) per node.
CypherNodes(nodes, uids) ==
    [i \in 1..Len(uids) |->
        Statement("MERGE", <<nodes[uids[i]].Kind, nodes[uids[i]].UID>>)]

RECURSIVE CypherNamespaces(_, _, _)
\* `range $namespace, $node := $namespaces` of the first transaction: the
\* MERGE of the namespace, when it has a name, and of its nodes.
CypherNamespaces(namespaces, keys, i) ==
    IF i > Len(keys) THEN <<>>
    ELSE (IF keys[i] # "" THEN <<Statement("MERGE", <<"Namespace", keys[i]>>)>>
          ELSE <<>>)
         \o CypherNodes(namespaces[keys[i]], RangeKeys(DOMAIN namespaces[keys[i]]))
         \o CypherNamespaces(namespaces, keys, i + 1)

RECURSIVE CypherClusters(_, _, _)
\* `range $cluster, $namespaces := .Nodes` of the first transaction.
CypherClusters(nodes, keys, i) ==
    IF i > Len(keys) THEN <<>>
    ELSE <<Statement("MERGE", <<"Cluster", keys[i]>>)>>
         \o CypherNamespaces(nodes[keys[i]], SortedKeys(DOMAIN nodes[keys[i]]), 1)
         \o CypherClusters(nodes, keys, i + 1)

RECURSIVE CypherRelationships(_, _, _)
\* `range .Relationships` and `range .` of the second transaction: one
\* MATCH (from),(to) ... MERGE (from)-[:Type]->(to) per stored relationship.
CypherRelationships(rels, keys, i) ==
    IF i > Len(keys) THEN <<>>
    ELSE [j \in 1..Len(rels[keys[i]]) |->
             Statement("MATCH MERGE",
                       <<rels[keys[i]][j].From.UID, rels[keys[i]][j].Type,
                         rels[keys[i]][j].To.UID>>)]
         \o CypherRelationships(rels, keys, i + 1)

RECURSIVE CypherNamespaceLinks(_, _)
\* MATCH (ns:Namespace) ... MERGE (node)-[:Namespace]->(ns), per named
\* namespace.
CypherNamespaceLinks(keys, i) ==
    IF i > Len(keys) THEN <<>>
    ELSE (IF keys[i] # ""
          THEN <<Statement("MATCH MERGE", <<"node", "Namespace", keys[i]>>)>>
          ELSE <<>>)
         \o CypherNamespaceLinks(keys, i + 1)

RECURSIVE CypherClusterLinks(_, _, _)
\* MATCH (cl:Cluster) ... MERGE (node)-[:Cluster]->(cl), per cluster, and the
\* statements of its namespaces.
CypherClusterLinks(nodes, keys, i) ==
    IF i > Len(keys) THEN <<>>
    ELSE <<Statement("MATCH MERGE", <<"node", "Cluster", keys[i]>>)>>
         \o CypherNamespaceLinks(SortedKeys(DOMAIN nodes[keys[i]]), 1)
         \o CypherClusterLinks(nodes, keys, i + 1)

\* A script with everything in one transaction and no wait for the indexes.
CypherTemplateOneTransaction(g) ==
    <<Statement(":begin", <<>>)>>
    \o CypherRelationships(g.Relationships, RangeKeys(DOMAIN g.Relationships), 1)
    \o CypherClusters(g.Nodes, SortedKeys(DOMAIN g.Nodes), 1)
    \o CypherClusterLinks(g.Nodes, SortedKeys(DOMAIN g.Nodes), 1)
    \o <<Statement(":commit", <<>>)>>

\* The statements of the script the cypher template renders from g.
CypherTemplate(g) ==
    <<Statement(":begin", <<>>)>>
    \o CypherClusters(g.Nodes, SortedKeys(DOMAIN g.Nodes), 1)
    \o <<Statement(":commit", <<>>),
         Statement("call db.awaitIndexes()", <<>>),
         Statement(":begin", <<>>)>>
    \o CypherRelationships(g.Relationships, RangeKeys(DOMAIN g.Relationships), 1)
    \o CypherClusterLinks(g.Nodes, SortedKeys(DOMAIN g.Nodes), 1)
    \o <<Statement(":commit", <<>>)>>

\* `range .` of the graphviz template over the nodes of one namespace: one
\* "UID" [label=...] per node.
GraphvizNodes(nodes, uids) ==
    [i \in 1..Len(uids) |->
        Statement("node", <<nodes[uids[i]].UID, nodes[uids[i]].Kind,
                            nodes[uids[i]].Name>>)]

RECURSIVE GraphvizNamespaces(_, _, _)
\* `range $namespace, $node := $namespaces`: a named namespace is a subgraph
\* with its label, its background and an invisible point node named after it,
\* followed by its nodes; the nodes of the namespace "" come without subgraph.
GraphvizNamespaces(namespaces, keys, i) ==
    IF i > Len(keys) THEN <<>>
    ELSE (IF keys[i] # ""
          THEN <<Statement("subgraph", <<"cluster_namespace_" \o keys[i]>>),
                 Statement("attr", <<"label", keys[i]>>),
                 Statement("attr", <<"bgcolor", "#E3F2FD">>),
                 Statement("node", <<keys[i], "Namespace", keys[i]>>)>>
               \o GraphvizNodes(namespaces[keys[i]],
                                RangeKeys(DOMAIN namespaces[keys[i]]))
               \o <<Statement("}", <<>>)>>
          ELSE GraphvizNodes(namespaces[keys[i]],
                             RangeKeys(DOMAIN namespaces[keys[i]])))
         \o GraphvizNamespaces(namespaces, keys, i + 1)

RECURSIVE GraphvizClusters(_, _, _)
\* `range $cluster, $namespaces := .Nodes`: one subgraph per cluster.
GraphvizClusters(nodes, keys, i) ==
    IF i > Len(keys) THEN <<>>
    ELSE <<Statement("subgraph", <<"cluster_" \o keys[i]>>),
           Statement("attr", <<"label", keys[i]>>),
           Statement("attr", <<"bgcolor", "#ECEFF1">>)>>
         \o GraphvizNamespaces(nodes[keys[i]], SortedKeys(DOMAIN nodes[keys[i]]), 1)
         \o <<Statement("}", <<>>)>>
         \o GraphvizClusters(nodes, keys, i + 1)

RECURSIVE GraphvizRelationships(_, _, _)
\* `range .Relationships` and `range .`: one "from" -> "to" [attributes] per
\* stored relationship.
GraphvizRelationships(rels, keys, i) ==
    IF i > Len(keys) THEN <<>>
    ELSE [j \in 1..Len(rels[keys[i]]) |->
             Statement("edge",
                       <<rels[keys[i]][j].From.UID, rels[keys[i]][j].To.UID,
                         rels[keys[i]][j].Attr>>)]
         \o GraphvizRelationships(rels, keys, i + 1)

\* The statements of the digraph the graphviz template renders from g.
GraphvizTemplate(g) ==
    <<Statement("attr", <<"graph", "rankdir", "LR", "bgcolor", "#F6F6F6">>),
      Statement("attr", <<"node", "shape", "record", "color", "#D3D3D3",
                          "style", "filled", "fillcolor", "#FFFFFF">>),
      Statement("attr", <<"edge", "color", "#4284F3">>),
      Statement("attr", <<"compound", "true">>)>>
    \o GraphvizClusters(g.Nodes, SortedKeys(DOMAIN g.Nodes), 1)
    \o GraphvizRelationships(g.Relationships, RangeKeys(DOMAIN g.Relationships), 1)

\* The statements of one kind in a rendered output.
StatementsOf(output, stmts) == SelectSeq(output, LAMBDA s : s.stmt \in stmts)

\* The nodes a traversal along the edges reaches from the nodes in `seen`.
RECURSIVE ReachableFrom(_, _)
ReachableFrom(seen, edges) ==
    LET more == {e[3] : e \in {x \in edges : x[1] \in seen}} \ seen
    IN  IF more = {} THEN seen ELSE ReachableFrom(seen \cup more, edges)

\* The cluster and namespace nodes of the database.
Roots(d) == {k \in DOMAIN d.nodes : k[1] \in {"Cluster", "Namespace"}}

\* The root of a node: the node of its namespace, or the cluster node when it
\* has no namespace.
RootOf(d, key) ==
    IF "Namespace" \in DOMAIN d.nodes[key]
    THEN <<"Namespace", d.nodes[key].Namespace>>
    ELSE <<"Cluster", d.nodes[key].ClusterName>>

\* The (UID, kind, name) of every stored record and the (from, label, to) of
\* every stored relationship.
KindNames(nodes) ==
    {<<NodeAt(nodes, s).UID, NodeAt(nodes, s).Kind, NodeAt(nodes, s).Name>> :
        s \in Slots(nodes)}

Edges(rels) == {<<r.From.UID, r.Type, r.To.UID>> : r \in AllRelationships(rels)}

\* The orderings of a list of n objects.
Orderings(n) == {p \in [1..n -> 1..n] : \A i, j \in 1..n : p[i] = p[j] => i = j}

\* ------------------------------------------------------- the input objects
\* An object of the cluster as the fetch layer hands it over.
AsInput(obj, apiVersion, kind) == [obj EXCEPT !.APIVersion = apiVersion, !.Kind = kind]

Input(apiVersion, kind, uid, name, namespace, spec) ==
    AsInput(Object(uid, name, namespace, EmptyMap, <<>>, spec), apiVersion, kind)

\* v1.IngressBackend
ServiceBackend(name) ==
    [Service |-> [Nil |-> FALSE, Name |-> name], Resource |-> [Nil |-> TRUE]]

ResourceBackend(apiGroup, kind, name) ==
    [Service |-> [Nil |-> TRUE],
     Resource |-> [Nil |-> FALSE, APIGroupNil |-> FALSE, APIGroup |-> apiGroup,
                   Kind |-> kind, Name |-> name]]

NoBackend == [Service |-> [Nil |-> TRUE], Resource |-> [Nil |-> TRUE]]

IngressRule(host, paths) == [Host |-> host, HTTPNil |-> FALSE, Paths |-> paths]

InputIngresses ==
    {Input("networking.k8s.io/v1", "Ingress", "ing-1", "web", "ns1",
           [Rules |-> <<IngressRule("example.com", <<ServiceBackend("web")>>)>>]),
     Input("networking.k8s.io/v1", "Ingress", "ing-2", "nodeport", "ns1",
           [Rules |-> <<IngressRule("example.com", <<ServiceBackend("nodeport")>>)>>]),
     Input("networking.k8s.io/v1", "Ingress", "ing-3", "bucket", "ns1",
           [Rules |-> <<IngressRule("static.example.com",
                          <<ResourceBackend("tenancy.example.io", "Bucket", "assets"),
                            NoBackend>>)>>])}

PolicySpec(podSelector, ingress, egress) ==
    [PodSelector |-> podSelector, Ingress |-> ingress, Egress |-> egress]

Rule(peers) == [Peers |-> peers]

WebPods == Selector(Put(EmptyMap, "app", "web"))

TeamA == Selector(Put(EmptyMap, "team", "a"))

InputPolicies ==
    {Input("networking.k8s.io/v1", "NetworkPolicy", "np-1", "allow-any", "ns1",
           PolicySpec(WebPods, <<Rule(<<>>)>>, <<>>)),
     Input("networking.k8s.io/v1", "NetworkPolicy", "np-2", "both", "ns1",
           PolicySpec(Selector(EmptyMap),
                      <<Rule(<<Peer(NilSelector, WebPods, "")>>)>>,
                      <<Rule(<<Peer(NilSelector, WebPods, ""),
                               Peer(NilSelector, NilSelector, "10.0.0.0/8")>>)>>)),
     Input("networking.k8s.io/v1", "NetworkPolicy", "np-3", "by-namespace", "ns1",
           PolicySpec(WebPods,
                      <<Rule(<<Peer(TeamA, NilSelector, "")>>)>>,
                      <<Rule(<<Peer(Selector(EmptyMap), Selector(EmptyMap), "")>>)>>)),
     Input("networking.k8s.io/v1", "NetworkPolicy", "np-4", "broken", "ns1",
           PolicySpec(WebPods, <<Rule(<<Peer(NilSelector, InvalidSelector, "")>>)>>, <<>>)),
     Input("networking.k8s.io/v1", "NetworkPolicy", "np-5", "db-any", "ns2",
           PolicySpec(Selector(EmptyMap), <<Rule(<<>>)>>, <<>>)),
     Input("networking.k8s.io/v1", "NetworkPolicy", "np-6", "web-any", "ns2",
           PolicySpec(WebPods, <<Rule(<<>>)>>, <<>>)),
     Input("networking.k8s.io/v1", "NetworkPolicy", "np-7", "team-a", "ns2",
           PolicySpec(WebPods,
                      <<Rule(<<Peer(TeamA, NilSelector, "")>>)>>,
                      <<Rule(<<Peer(TeamA, Selector(EmptyMap), "")>>)>>))}

NodeInfo(architecture, runtime, kernel, osImage) ==
    [Architecture |-> architecture, Runtime |-> runtime, Kernel |-> kernel,
     OSImage |-> osImage]

\* worker-1 reports four different facts, the virtual node reports no
\* runtime and no kernel.
InputNodes ==
    {Input("v1", "Node", "node-1", "worker-1", "",
           NodeInfo("amd64", "containerd", "5.4", "linux")),
     Input("v1", "Node", "node-2", "virtual-1", "",
           NodeInfo("amd64", "", "", "linux"))}

InputObjects ==
    {AsInput(ClusterPods[1], "v1", "Pod"),
     [AsInput(ClusterPods[2], "v1", "Pod") EXCEPT !.Convertible = FALSE],
     AsInput(ClusterNamespaces[1], "v1", "Namespace"),
     AsInput(ClusterEndpoints[1], "v1", "Endpoints"),
     Input("v1", "ConfigMap", "cm-1", "settings", "ns1", [Data |-> "x"]),
     AsInput(Object("rs-1", "web", "ns1", Put(EmptyMap, "app", "web"), <<>>,
                    [Replicas |-> 1]), "apps/v1", "ReplicaSet"),
     Input("route.openshift.io/v1", "Route", "route-1", "web", "ns1", [To |-> "web"]),
     Input("route.openshift.io/v1", "Route", "route-2", "nodeport", "ns1",
           [To |-> "nodeport"]),
     Input("route.openshift.io/v1", "Route", "route-3", "ext", "ns1", [To |-> "ext"])}
    \cup {AsInput(ClusterServices[i], "v1", "Service") : i \in DOMAIN ClusterServices}
    \cup InputNodes \cup InputPolicies \cup InputIngresses

\* The visiting orders to consider for an object: only the Node producer
\* ranges over a map.
OrdersFor(unstr) ==
    IF unstr.APIVersion = "v1" /\ unstr.Kind = "Node" THEN InfoOrders
    ELSE {<<"Architecture", "Runtime", "Kernel", "OSImage">>}

\* ------------------------------------------------- calls made on the store
NativeUIDs == {"u1", "u2"}

NameOf(uid) == "name-" \o uid

\* An owner reference to the ReplicaSet with the given UID.
ReplicaSetRef(uid) ==
    [APIVersion |-> "apps/v1", Kind |-> "ReplicaSet", Name |-> NameOf(uid), UID |-> uid]

\* Metadata an object may carry: none, or one label and one annotation.
MetadataSets ==
    {[Labels |-> EmptyMap, Annotations |-> EmptyMap],
     [Labels |-> Put(EmptyMap, "a", "1"), Annotations |-> Put(EmptyMap, "note", "x")]}

\* The objects handed to Graph.Node by direct callers: u1 namespaced or
\* cluster-scoped, with or without its owner u2; u2 itself in either scope or
\* as a synthetic object of the "External" cluster.
NodeObjects ==
    {[UID |-> "u1", Name |-> NameOf("u1"), Namespace |-> ns, ClusterName |-> "",
      OwnerReferences |-> ow, Labels |-> m.Labels, Annotations |-> m.Annotations] :
        ns \in {"", "ns1"}, ow \in {<<>>, <<ReplicaSetRef("u2")>>}, m \in MetadataSets}
    \cup
    {[UID |-> "u2", Name |-> NameOf("u2"), Namespace |-> ns, ClusterName |-> "",
      OwnerReferences |-> <<>>, Labels |-> m.Labels, Annotations |-> m.Annotations] :
        ns \in {"", "ns1"}, m \in MetadataSets}
    \cup
    {[UID |-> "u2", Name |-> NameOf("u2"), Namespace |-> "", ClusterName |-> "External",
      OwnerReferences |-> <<>>, Labels |-> m.Labels, Annotations |-> m.Annotations] :
        m \in MetadataSets}

\* The kinds direct callers upsert: u2 is the ReplicaSet the owner references
\* name, u1 a Pod or a core Namespace.
NodeGVKs(obj) ==
    IF obj.UID = "u2" THEN {FromAPIVersionAndKind("apps/v1", "ReplicaSet")}
    ELSE IF obj.Namespace = ""
         THEN {FromAPIVersionAndKind("v1", "Pod"), FromAPIVersionAndKind("v1", "Namespace")}
         ELSE {FromAPIVersionAndKind("v1", "Pod")}

\* The *Node values direct callers pass to Graph.Relationship.
NodeRefs ==
    {[UID |-> "u1", Kind |-> "Pod"], [UID |-> "u2", Kind |-> "ReplicaSet"]}

RelationshipLabels == {"Pod", "Other"}

AttributeKeys == {"color", "style"}

AttributeValues == {"x"}

Init ==
    /\ Nodes = EmptyMap
    /\ Relationships = EmptyMap
    /\ handles = <<>>
    /\ written = {}
    /\ ncalls = 0
    /\ last = [op |-> "NewGraph"]
    /\ objs = <<>>
    /\ clientset = [down |-> {}]
    /\ idx = 0
    /\ errs = <<>>
    /\ log = <<>>
    /\ prev = EmptyGraph
    /\ pc = "calls"
    /\ aggregate = <<>>
    /\ db = NoOutput
    /\ first = [done |-> FALSE, UIDs |-> {}, KindNames |-> {}, Edges |-> {}]

\* The label of the relationship stored for the pair, "" when there is none.
StoredLabel(rels, fromUID, toUID) ==
    LET Label(rs) ==
            IF \E k \in DOMAIN rs : rs[k].To.UID = toUID
            THEN rs[CHOOSE k \in DOMAIN rs : rs[k].To.UID = toUID].Type
            ELSE ""
    IN  Label(Get(rels, fromUID, <<>>))

\* g.Node(gvk, obj)
NodeCall(gvk, obj) ==
    /\ ncalls < MaxCalls
    /\ \E res \in {GraphNode(Graph(Nodes, Relationships), gvk, obj)} :
           /\ Nodes' = res.g.Nodes
           /\ Relationships' = res.g.Relationships
           /\ last' = [op |-> "Node", gvk |-> gvk, obj |-> obj, node |-> res.node,
                       prior |-> RecordsOf(Nodes, obj.UID)]
    /\ ncalls' = ncalls + 1
    /\ UNCHANGED <<handles, written, ingestVars, outVars>>

\* r := g.Relationship(from, label, to), the caller keeping r
RelationshipCall(from, label, to) ==
    /\ ncalls < MaxCalls
    /\ LET res == GraphRelationship(Graph(Nodes, Relationships), from, label, to)
       IN  /\ Relationships' = res.g.Relationships
           /\ handles' = Append(handles,
                 [from |-> from.UID, label |-> label, to |-> to.UID, r |-> res.r,
                  found |-> StoredLabel(Relationships, from.UID, to.UID)])
    /\ last' = [op |-> "Relationship"]
    /\ ncalls' = ncalls + 1
    /\ UNCHANGED <<Nodes, written, ingestVars, outVars>>

\* handles[i].r.Attribute(key, value)
AttributeCall(i, key, value) ==
    /\ Cardinality(written) < MaxWrites
    /\ Relationships' =
          Attribute(Graph(Nodes, Relationships), handles[i].r, key, value).Relationships
    /\ written' = written \cup {<<i, key>>}
    /\ last' = [op |-> "Attribute"]
    /\ UNCHANGED <<Nodes, handles, ncalls, ingestVars, outVars>>

Next ==
    \/ \E obj \in NodeObjects : \E gvk \in NodeGVKs(obj) : NodeCall(gvk, obj)
    \/ \E from \in NodeRefs, to \in NodeRefs, label \in RelationshipLabels :
          RelationshipCall(from, label, to)
    \/ \E i \in DOMAIN handles, key \in AttributeKeys, value \in AttributeValues :
          AttributeCall(i, key, value)

Spec == Init /\ [][Next]_vars

\* ------------------------------------------------------------- NewGraph
MaxObjs == 2

\* The input lists of NewGraph.
InputLists == UNION {[1..n -> InputObjects] : n \in 0..MaxObjs}

\* The live API answers every request, or the requests for one resource fail.
Outages == {[down |-> {}]} \cup {[down |-> {r}] : r \in Resources}

InitIngest ==
    /\ Nodes = EmptyMap
    /\ Relationships = EmptyMap
    /\ handles = <<>>
    /\ written = {}
    /\ ncalls = 0
    /\ last = [op |-> "NewGraph"]
    /\ objs \in InputLists
    /\ clientset \in Outages
    /\ idx = 0
    /\ errs = <<>>
    /\ log = <<>>
    /\ prev = EmptyGraph
    /\ pc = "loop"
    /\ aggregate = <<>>
    /\ db = NoOutput
    /\ first = [done |-> FALSE, UIDs |-> {}, KindNames |-> {}, Edges |-> {}]

\* One turn of the loop of NewGraph: err := g.Unstructured(obj) and the append
\* to errs; a nil dereference inside the call ends the program.
UnstructuredStep ==
    /\ pc = "loop"
    /\ idx < Len(objs)
    /\ \E order \in OrdersFor(objs[idx + 1]) :
       \E res \in {Dispatch(Graph(Nodes, Relationships), clientset, objs[idx + 1], order)} :
              /\ Nodes' = res.g.Nodes
              /\ Relationships' = res.g.Relationships
              /\ IF res.panic
                 THEN /\ pc' = "panic"
                      /\ UNCHANGED <<idx, errs, log>>
                 ELSE /\ pc' = "loop"
                      /\ idx' = idx + 1
                      /\ errs' = IF res.err # "" THEN Append(errs, res.err) ELSE errs
                      /\ log' = Append(log, [obj |-> objs[idx + 1], err |-> res.err])
    /\ prev' = Graph(Nodes, Relationships)
    /\ UNCHANGED <<objs, clientset, aggregate, callVars, outVars>>

\* return g, errors.NewAggregate(errs)
Return ==
    /\ pc = "loop"
    /\ idx = Len(objs)
    /\ pc' = "returned"
    /\ aggregate' = NewAggregate(errs)
    /\ UNCHANGED <<storeVars, callVars, objs, clientset, idx, errs, log, prev, outVars>>

\* graph.Write(o.Out, "cypher") after NewGraph returned without an error, and
\* the script loaded into an empty database.
Write ==
    /\ pc = "returned"
    /\ aggregate = <<>>
    /\ ~db.loaded
    /\ \E d \in {Cypher(Graph(Nodes, Relationships))} :
           db' = [db EXCEPT !.loaded = TRUE, !.nodes = d.nodes, !.edges = d.edges,
                            !.cypher = CypherTemplate(Graph(Nodes, Relationships))]
    /\ UNCHANGED <<storeVars, callVars, ingestVars, first>>

\* graph.Write(o.Out, "graphviz") after NewGraph returned without an error.
WriteGraphviz ==
    /\ pc = "returned"
    /\ aggregate = <<>>
    /\ db.graphviz = <<>>
    /\ db' = [db EXCEPT !.graphviz = GraphvizTemplate(Graph(Nodes, Relationships))]
    /\ UNCHANGED <<storeVars, callVars, ingestVars, first>>

\* A second NewGraph call, on the same objects in the order p and with the
\* same clientset; first keeps the UIDs, the kinds and names and the
\* relationships of the graph the call before returned.
Reorder(p) ==
    /\ pc = "returned"
    /\ ~first.done
    /\ first' = [done |-> TRUE, UIDs |-> StoredUIDs(Nodes),
                 KindNames |-> KindNames(Nodes), Edges |-> Edges(Relationships)]
    /\ objs' = [i \in DOMAIN objs |-> objs[p[i]]]
    /\ Nodes' = EmptyMap
    /\ Relationships' = EmptyMap
    /\ idx' = 0
    /\ errs' = <<>>
    /\ log' = <<>>
    /\ prev' = EmptyGraph
    /\ pc' = "loop"
    /\ aggregate' = <<>>
    /\ db' = NoOutput
    /\ UNCHANGED <<clientset, callVars>>

NextIngest ==
    \/ UnstructuredStep
    \/ Return
    \/ Write
    \/ WriteGraphviz
    \/ \E p \in Orderings(Len(objs)) : Reorder(p)

SpecIngest == InitIngest /\ [][NextIngest]_vars

\* C1: the store never holds two relationships for one ordered (from UID, to UID) pair.
OneRelationshipPerPair ==
    \A u \in DOMAIN Relationships :
        \A i, j \in DOMAIN Relationships[u] :
            Relationships[u][i].To.UID = Relationships[u][j].To.UID => i = j

\* C1 witness: a second direct call for a pair, under another label, has been
\* made and the store holds the pair once.
SecondCallForPair ==
    \E i, j \in DOMAIN handles :
        /\ i < j
        /\ handles[i].from = handles[j].from /\ handles[i].to = handles[j].to
        /\ handles[i].label # handles[j].label
        /\ Len(Relationships[handles[i].from]) = 1

\* C2: two direct calls with the same from, label and to return the same
\* relationship, the pair is stored once, and every attribute set through
\* either returned handle is present on that relationship.
SameRelationshipBothAttributes ==
    \A i, j \in DOMAIN handles :
        (/\ handles[i].from = handles[j].from
         /\ handles[i].label = handles[j].label
         /\ handles[i].to = handles[j].to)
        => /\ handles[i].r = handles[j].r
           /\ Cardinality({k \in DOMAIN Relationships[handles[i].from] :
                 Relationships[handles[i].from][k].To.UID = handles[i].to}) = 1
           /\ \A w \in written :
                 w[1] \in {i, j} => w[2] \in DOMAIN Deref(Relationships, handles[i].r).Attr

\* C2 witness: the same call was made twice, "color" was set through the first
\* handle and "style" through the second.
BothAttributesSet ==
    \E i, j \in DOMAIN handles :
        /\ i < j
        /\ handles[i].from = handles[j].from
        /\ handles[i].label = handles[j].label
        /\ handles[i].to = handles[j].to
        /\ <<i, "color">> \in written
        /\ <<j, "style">> \in written

\* C3: every UID is stored in at most one slot of the node store, whatever
\* namespace or cluster name its upserts carried.
OneRecordPerUID ==
    \A u \in StoredUIDs(Nodes) :
        Cardinality({s \in Slots(Nodes) : s[3] = u}) = 1

OwnersLinked ==
    last.op = "Node" =>
        \A i \in DOMAIN last.obj.OwnerReferences :
            LET ownerRef == last.obj.OwnerReferences[i]
            IN  /\ ownerRef.UID \in StoredUIDs(Nodes)
                /\ \E r \in AllRelationships(Relationships) :
                      /\ r.From.UID = ownerRef.UID
                      /\ r.To.UID = last.obj.UID
                      /\ r.Type = ToAPIVersionAndKind(last.gvk)[2]

\* C9: NewGraph never stops inside the loop; when it returns it has dispatched
\* every object of the list once and in list order, and the aggregate holds
\* the error of every failed object, being nil exactly when none failed.
NewGraphRunsToCompletion ==
    /\ pc # "panic"
    /\ pc = "returned" =>
          /\ [i \in DOMAIN log |-> log[i].obj] = objs
          /\ aggregate = SelectSeq([i \in DOMAIN log |-> log[i].err], LAMBDA e : e # "")
          /\ (aggregate = <<>>) <=> (\A i \in DOMAIN log : log[i].err = "")

\* C6: in the database the cypher output builds, every node other than the
\* cluster and namespace nodes has an incoming edge, and a node no stored
\* relationship points at is linked from its namespace node, or from the
\* cluster node when it has no namespace.
Rooted ==
    db.loaded =>
        \A k \in DOMAIN db.nodes \ Roots(db) :
            /\ Incoming(db, k)
            /\ (~\E r \in AllRelationships(Relationships) : <<r.To.Kind, r.To.UID>> = k)
                  => \E e \in db.edges : e[1] = RootOf(db, k) /\ e[3] = k

\* C7: in the database the cypher output builds, every node is reachable
\* along the edges from a cluster or namespace node.
ReachableFromRoots ==
    db.loaded => DOMAIN db.nodes \subseteq ReachableFrom(Roots(db), db.edges)

\* C8: two NewGraph calls on two orderings of the same objects, with the same
\* clientset, return graphs with the same UIDs, the same kind and name under
\* each UID and the same (from, label, to) relationships.
OrderIndependent ==
    (first.done /\ pc = "returned") =>
        /\ StoredUIDs(Nodes) = first.UIDs
        /\ KindNames(Nodes) = first.KindNames
        /\ Edges(Relationships) = first.Edges

\* The errors of the live API.
LookupErrors ==
    {r \o " unavailable" : r \in Resources} \cup {r \o " not found" : r \in Resources}

\* C10: when the last Unstructured call failed on a live lookup, its error is
\* the last one appended to errs, the node of the object is in the store, and
\* every node and relationship stored before the call is still stored, the
\* node with the fields Graph.Node wrote and the relationship with its label
\* and attributes.
LookupFailureKeepsStore ==
    (pc # "panic" /\ Len(log) > 0 /\ log[Len(log)].err \in LookupErrors) =>
        /\ Len(errs) > 0 /\ errs[Len(errs)] = log[Len(log)].err
        /\ log[Len(log)].obj.UID \in StoredUIDs(Nodes)
        /\ \A s \in Slots(prev.Nodes) :
              /\ s \in Slots(Nodes)
              /\ NodeFields(NodeAt(Nodes, s)) = NodeFields(NodeAt(prev.Nodes, s))
        /\ \A u \in DOMAIN prev.Relationships :
              /\ u \in DOMAIN Relationships
              /\ \A i \in DOMAIN prev.Relationships[u] :
                    /\ i \in DOMAIN Relationships[u]
                    /\ Relationships[u][i] = prev.Relationships[u][i]

\* C10 witness: a lookup failed for an object dispatched into a store that
\* already held nodes and relationships.
LookupFailedOnFilledStore ==
    /\ pc # "panic" /\ Len(log) > 0 /\ log[Len(log)].err \in LookupErrors
    /\ Slots(prev.Nodes) # {}
    /\ DOMAIN prev.Relationships # {}
    /\ Slots(Nodes) # Slots(prev.Nodes)

\* ------------------------------------------------------------ ToUID calls
MaxLen == 2

\* Identifying strings: empty, plain, and one that contains the separator.
Strings == {"", "a", "b", "a-b"}

\* The input lists of ToUID: every caller passes at least one string.
StringLists == UNION {[1..n -> Strings] : n \in 1..MaxLen}

InitToUID ==
    /\ Nodes = EmptyMap
    /\ Relationships = EmptyMap
    /\ handles = <<>>
    /\ written = {}
    /\ ncalls = 0
    /\ last = [op |-> "NewGraph"]
    /\ objs = <<>>
    /\ clientset = [down |-> {}]
    /\ idx = 0
    /\ errs = <<>>
    /\ log = <<>>
    /\ prev = EmptyGraph
    /\ pc = "calls"
    /\ aggregate = <<>>
    /\ db = NoOutput
    /\ first = [done |-> FALSE, UIDs |-> {}, KindNames |-> {}, Edges |-> {}]

\* ToUID(input...) and ToUID(other...), two calls of one caller
ToUIDCall(input, other) ==
    /\ last' = [op |-> "ToUID", input |-> input, other |-> other,
                uid |-> ToUID(input), otherUID |-> ToUID(other)]
    /\ UNCHANGED <<storeVars, handles, written, ncalls, ingestVars, outVars>>

NextToUID == \E input \in StringLists, other \in StringLists : ToUIDCall(input, other)

SpecToUID == InitToUID /\ [][NextToUID]_vars

\* ------------------------------------------------------- command options
\* The values of --output tried: every documented name and alias, the unset
\* flag and two names no revision knows.
OutputFormats ==
    {"", "graphviz", "dot", "cypher", "cql", "cyp", "arangodb", "aql",
     "mermaid", "json", "yaml"}

\* The two revisions of the command in the source tree.
Revisions == {"cmd.go", "part_001"}

NoError == ""

\* GraphOptions.Complete (pkg/cmd/cmd.go): the namespace of the kubeconfig
\* loader, then the aliases of the output format
Complete(o, loaderErr) ==
    IF loaderErr # NoError THEN [o |-> o, err |-> loaderErr]
    ELSE LET ns == [o EXCEPT !.ExplicitNamespace =
                        IF o.AllNamespaces THEN FALSE ELSE @]
         IN  [o |-> [ns EXCEPT !.OutputFormat =
                        CASE @ \in {"cql", "cyp"} -> "cypher"
                          [] @ \in {"dot", ""} -> "graphviz"
                          [] OTHER -> @],
              err |-> NoError]

\* GraphOptions.Validate (pkg/cmd/cmd.go)
Validate(o, args) ==
    IF Len(args) = 0 /\ o.Filenames = <<>>
    THEN "You must specify the type of resource to graph"
    ELSE IF ~(o.OutputFormat = "cypher" \/ o.OutputFormat = "graphviz")
    THEN "Invalid output format"
    ELSE NoError

\* GraphOptions.Complete of the later revision of the command
CompletePart001(o, loaderErr) ==
    IF loaderErr # NoError THEN [o |-> o, err |-> loaderErr]
    ELSE LET ns == [o EXCEPT !.ExplicitNamespace =
                        IF o.AllNamespaces THEN FALSE ELSE @]
         IN  [o |-> [ns EXCEPT !.OutputFormat =
                        CASE @ = "aql" -> "arangodb"
                          [] @ = "cql" -> "cypher"
                          [] @ \in {"dot", ""} -> "graphviz"
                          [] OTHER -> @],
              err |-> NoError]

\* GraphOptions.Validate of the later revision of the command
ValidatePart001(o, args) ==
    IF Len(args) = 0 /\ o.Filenames = <<>>
    THEN "you must specify the type of resource to graph"
    ELSE IF ~(o.OutputFormat = "arangodb" \/ o.OutputFormat = "cypher"
              \/ o.OutputFormat = "graphviz" \/ o.OutputFormat = "mermaid")
    THEN "invalid output format"
    ELSE NoError

\* NewGraphOptions and the flags of NewCmdGraph
NewGraphOptions(output, allNamespaces, filenames) ==
    [OutputFormat |-> output, AllNamespaces |-> allNamespaces,
     ExplicitNamespace |-> TRUE, Filenames |-> filenames]

\* The Run function of the cobra command: Complete, Validate and Run, each
\* under cmdutil.CheckErr, which exits on an error.
CheckErr(revision, completed, args) ==
    IF completed.err # NoError
    THEN [o |-> completed.o, err |-> completed.err, run |-> FALSE]
    ELSE LET err == IF revision = "cmd.go" THEN Validate(completed.o, args)
                    ELSE ValidatePart001(completed.o, args)
         IN  [o |-> completed.o, err |-> err, run |-> err = NoError]

InitOptions == InitToUID

\* One invocation of the graph command
GraphCommand(revision, output, allNamespaces, filenames, args, loaderErr) ==
    /\ \E done \in {CheckErr(revision,
                        IF revision = "cmd.go"
                        THEN Complete(NewGraphOptions(output, allNamespaces, filenames), loaderErr)
                        ELSE CompletePart001(NewGraphOptions(output, allNamespaces, filenames), loaderErr),
                        args)} :
           last' = [op |-> "graph", revision |-> revision, output |-> output,
                    args |-> args, filenames |-> filenames,
                    loaderErr |-> loaderErr, o |-> done.o, err |-> done.err,
                    run |-> done.run]
    /\ UNCHANGED <<storeVars, handles, written, ncalls, ingestVars, outVars>>

NextOptions ==
    \E revision \in Revisions, output \in OutputFormats,
       allNamespaces \in BOOLEAN, filenames \in {<<>>, <<"pod.yaml">>},
       args \in {<<>>, <<"pods">>}, loaderErr \in {NoError, "invalid configuration"} :
        GraphCommand(revision, output, allNamespaces, filenames, args, loaderErr)

SpecOptions == InitOptions /\ [][NextOptions]_vars

\* C11: every object Graph.Unstructured has processed has a node with its UID
\* in the store.
TotalCoverage ==
    \A i \in DOMAIN log : log[i].obj.UID \in StoredUIDs(Nodes)

\* C12: ToUID returns different identifiers for different input lists.
ToUIDInjective ==
    (last.op = "ToUID" /\ last.input # last.other) => last.uid # last.otherUID

\* C13: when the command gets as far as checking the output format, it
\* accepts exactly graphviz, dot, cypher, cql, cyp, arangodb, aql, mermaid and
\* the unset flag, resolves dot and the unset flag to graphviz, cql and cyp to
\* cypher and aql to arangodb, and rejects every other value with the
\* invalid-output-format error before anything is rendered.
OutputFormatsAccepted ==
    LET AcceptedFormats ==
            [graphviz |-> "graphviz", dot |-> "graphviz", cypher |-> "cypher",
             cql |-> "cypher", cyp |-> "cypher", arangodb |-> "arangodb",
             aql |-> "arangodb", mermaid |-> "mermaid"]
    IN  (/\ last.op = "graph"
         /\ last.loaderErr = NoError
         /\ ~(last.args = <<>> /\ last.filenames = <<>>))
        => IF last.output = ""
           THEN last.run /\ last.o.OutputFormat = "graphviz"
           ELSE IF last.output \in DOMAIN AcceptedFormats
           THEN last.run /\ last.o.OutputFormat = AcceptedFormats[last.output]
           ELSE ~last.run /\ last.err \in {"Invalid output format", "invalid output format"}

\* C14: in the cypher script every node MERGE is inside the first
\* :begin/:commit transaction, the wait for the indexes follows that
\* transaction, and every relationship statement is inside a second
\* transaction after the wait, so that no relationship statement precedes a
\* node statement.
CypherNodesBeforeRelationships ==
    db.cypher # <<>> =>
        LET Pos(stmts) == {i \in DOMAIN db.cypher : db.cypher[i].stmt \in stmts}
        IN  /\ Cardinality(Pos({":begin"})) = 2
            /\ Cardinality(Pos({":commit"})) = 2
            /\ Cardinality(Pos({"call db.awaitIndexes()"})) = 1
            /\ \E b1, b2 \in Pos({":begin"}), c1, c2 \in Pos({":commit"}),
                  a \in Pos({"call db.awaitIndexes()"}) :
                   /\ b1 < c1 /\ c1 < a /\ a < b2 /\ b2 < c2
                   /\ \A i \in Pos({"MERGE"}) : b1 < i /\ i < c1
                   /\ \A i \in Pos({"MATCH MERGE"}) : b2 < i /\ i < c2
                   /\ \A i \in Pos({"MERGE"}), j \in Pos({"MATCH MERGE"}) : i < j

\* A script with the MERGE of a stored node and the statement of a stored
\* relationship has been written.
ScriptWithNodesAndRelationships ==
    /\ \E i \in DOMAIN db.cypher :
           /\ db.cypher[i].stmt = "MERGE"
           /\ db.cypher[i].args[1] \notin {"Cluster", "Namespace"}
    /\ \E i \in DOMAIN db.cypher :
           /\ db.cypher[i].stmt = "MATCH MERGE"
           /\ db.cypher[i].args[1] # "node"

\* C15: the graphviz and the cypher rendering of one graph have the same
\* number of node statements and the same number of edge statements, one per
\* stored node and one per stored relationship.
SameCardinality ==
    (db.cypher # <<>> /\ db.graphviz # <<>>) =>
        /\ Len(StatementsOf(db.cypher, {"MERGE"}))
               = Len(StatementsOf(db.graphviz, {"node"}))
        /\ Len(StatementsOf(db.cypher, {"MATCH MERGE"}))
               = Len(StatementsOf(db.graphviz, {"edge"}))
        /\ Len(StatementsOf(db.cypher, {"MERGE"})) = Cardinality(Slots(Nodes))
        /\ Len(StatementsOf(db.cypher, {"MATCH MERGE"}))
               = Cardinality(AllRelationships(Relationships))

\* C16: the root linking at the end of the script only adds relationships:
\* the store is as it was, and the nodes of the database and their properties
\* are those the statements before the linking have made, also for a node
\* whose namespace has no node in the store.
FinalizeOnlyAddsRelationships ==
    [][(~db.loaded /\ db'.loaded) =>
         LET Linked(before) ==
                 /\ db'.nodes = before.nodes
                 /\ before.edges \subseteq db'.edges
         IN  /\ Nodes' = Nodes
             /\ Relationships' = Relationships
             /\ Linked(MergeRelationships(
                           MergeClusters(EmptyDatabase, Nodes,
                                         SortedKeys(DOMAIN Nodes), 1),
                           Relationships))]_vars

\* The script has linked a node to its namespace, and the store has no node
\* of the kind Namespace.
OrphanLinkedToNamespace ==
    /\ db.loaded
    /\ \E e \in db.edges : e[2] = "Namespace" /\ e[1][1] \notin {"Cluster", "Namespace"}
    /\ \A slot \in Slots(Nodes) : NodeAt(Nodes, slot).Kind # "Namespace"

\* C17: nothing is removed during ingest: over every call of Graph.Node,
\* Graph.Relationship, Relationship.Attribute and of a producer, a UID in the
\* store stays in the store and a stored ordered pair (from, to) stays
\* stored.
NothingRemoved ==
    [][(pc \in {"calls", "loop"}) =>
         LET Pairs(rels) == {<<r.From.UID, r.To.UID>> : r \in AllRelationships(rels)}
         IN  /\ StoredUIDs(Nodes) \subseteq StoredUIDs(Nodes')
             /\ Pairs(Relationships) \subseteq Pairs(Relationships')]_vars

\* A second object has been ingested into a store that held nodes and
\* relationships before, and has added to both.
SecondObjectAdded ==
    /\ idx >= 2
    /\ StoredUIDs(prev.Nodes) # {}
    /\ AllRelationships(prev.Relationships) # {}
    /\ StoredUIDs(prev.Nodes) # StoredUIDs(Nodes)
    /\ AllRelationships(prev.Relationships) # AllRelationships(Relationships)

\* C18: the first call for an ordered pair (from, to) decides the edge: a
\* later call for the pair with another label returns the edge of the first
\* call, the edge keeps the label of the first call, no edge with the later
\* label is stored for the pair, and every attribute the later caller sets is
\* on that edge.
FirstWriteWins ==
    \A j \in DOMAIN handles :
        (handles[j].found # "" /\ handles[j].found # handles[j].label)
        => /\ Deref(Relationships, handles[j].r).From.UID = handles[j].from
           /\ Deref(Relationships, handles[j].r).To.UID = handles[j].to
           /\ Deref(Relationships, handles[j].r).Type = handles[j].found
           /\ \A k \in DOMAIN Relationships[handles[j].from] :
                 Relationships[handles[j].from][k].To.UID = handles[j].to
                 => Relationships[handles[j].from][k].Type = handles[j].found
           /\ \A i \in 1..(j - 1) :
                 (handles[i].from = handles[j].from /\ handles[i].to = handles[j].to)
                 => handles[i].r = handles[j].r
           /\ \A w \in written :
                 w[1] = j => w[2] \in DOMAIN Deref(Relationships, handles[j].r).Attr

\* A later call for a stored pair was made with another label, and the later
\* caller has set an attribute.
LaterCallerSetAttribute ==
    \E i, j \in DOMAIN handles :
        /\ i < j
        /\ handles[i].from = handles[j].from
        /\ handles[i].to = handles[j].to
        /\ handles[i].found = ""
        /\ handles[j].found = handles[i].label
        /\ handles[j].label # handles[i].label
        /\ \E key \in AttributeKeys : <<j, key>> \in written

\* C19: every relationship labeled "Ingress" or "Egress" is dashed and has the
\* color of its label, #34A853 for "Ingress" and #EA4335 for "Egress", also
\* when one policy has ingress and egress rules for the same pod.
DashedAndColoredByLabel ==
    \A r \in AllRelationships(Relationships) :
        r.Type \in {"Ingress", "Egress"}
        => /\ Get(r.Attr, "style", "") = "dashed"
           /\ Get(r.Attr, "color", "") =
                 (IF r.Type = "Ingress" THEN "#34A853" ELSE "#EA4335")

\* C20: for every peer a NetworkPolicy rule resolves to (pod, namespace or IP
\* block), the store holds for an ingress rule the edge from the peer to the
\* policy labeled "Ingress", and for an egress rule the edge from the policy to
\* the peer labeled "Egress".
PeerEdgesDirected ==
    \A i \in DOMAIN log :
        (log[i].err = "" /\ log[i].obj.Kind = "NetworkPolicy") =>
            LET obj == log[i].obj
                Pods(namespace, ps) ==
                    {p.UID : p \in Range(ListRunningPods(clientset, namespace,
                                                         ps.MatchLabels).items)}
                Namespaces(ns) ==
                    {n.Name : n \in Range(ListNamespaces(clientset, ns.MatchLabels).items)}
                Resolved(peer) ==
                    CASE ~peer.NamespaceSelector.Nil /\ ~peer.PodSelector.Nil ->
                            UNION {Pods(n, peer.PodSelector) :
                                      n \in Namespaces(peer.NamespaceSelector)}
                      [] ~peer.NamespaceSelector.Nil /\ peer.PodSelector.Nil ->
                            Namespaces(peer.NamespaceSelector)
                      [] peer.NamespaceSelector.Nil /\ ~peer.PodSelector.Nil ->
                            Pods(obj.Namespace, peer.PodSelector)
                      [] peer.NamespaceSelector.Nil /\ peer.PodSelector.Nil
                            /\ peer.IPBlock # "" -> {ToUID(<<peer.IPBlock>>)}
                      [] OTHER -> {}
                PeersOf(rules) ==
                    UNION {IF Len(rules[k].Peers) = 0
                           THEN Pods(obj.Namespace, Selector(EmptyMap))
                           ELSE UNION {Resolved(rules[k].Peers[j]) :
                                          j \in DOMAIN rules[k].Peers} :
                           k \in DOMAIN rules}
                Edge(from, labels, to) ==
                    \E r \in AllRelationships(Relationships) :
                        r.From.UID = from /\ r.To.UID = to /\ r.Type \in labels
            IN  /\ \A u \in PeersOf(obj.Spec.Ingress) : Edge(u, {"Ingress"}, obj.UID)
                /\ \A u \in PeersOf(obj.Spec.Egress) : Edge(obj.UID, {"Egress"}, u)

NamespacePeersEdgePods ==
    \A i \in DOMAIN log :
        (log[i].err = "" /\ log[i].obj.Kind = "NetworkPolicy") =>
            LET obj == log[i].obj
                Pods(namespace, labels) ==
                    {p.UID : p \in Range(ListRunningPods(clientset, namespace,
                                                         labels).items)}
                Namespaces(ns) ==
                    {n.Name : n \in Range(ListNamespaces(clientset, ns.MatchLabels).items)}
                Resolved(peer) ==
                    IF peer.NamespaceSelector.Nil THEN {}
                    ELSE UNION {Pods(n, IF peer.PodSelector.Nil THEN EmptyMap
                                        ELSE peer.PodSelector.MatchLabels) :
                                   n \in Namespaces(peer.NamespaceSelector)}
                PeersOf(rules) ==
                    UNION {{rules[k].Peers[j] : j \in DOMAIN rules[k].Peers} :
                              k \in DOMAIN rules}
                PodsOf(rules) == UNION {Resolved(peer) : peer \in PeersOf(rules)}
                Edge(from, to) ==
                    \E r \in AllRelationships(Relationships) :
                        r.From.UID = from /\ r.To.UID = to
                OnlyNamespacePeers ==
                    /\ Pods(obj.Namespace, obj.Spec.PodSelector.MatchLabels) = {}
                    /\ \A k \in DOMAIN obj.Spec.Ingress : Len(obj.Spec.Ingress[k].Peers) # 0
                    /\ \A k \in DOMAIN obj.Spec.Egress : Len(obj.Spec.Egress[k].Peers) # 0
                    /\ \A peer \in PeersOf(obj.Spec.Ingress) \cup PeersOf(obj.Spec.Egress) :
                          ~peer.NamespaceSelector.Nil
            IN  /\ \A p \in PodsOf(obj.Spec.Ingress) : Edge(p, obj.UID)
                /\ \A p \in PodsOf(obj.Spec.Egress) : Edge(obj.UID, p)
                /\ OnlyNamespacePeers =>
                      \A p \in {q.UID : q \in Range(ClusterPods)} :
                          /\ Edge(p, obj.UID) => p \in PodsOf(obj.Spec.Ingress)
                          /\ Edge(obj.UID, p) => p \in PodsOf(obj.Spec.Egress)

\* C23: right after a Service has been processed without an error, a ClusterIP
\* or LoadBalancer Service has exactly one relationship labeled "Endpoints",
\* to the stored node of the Endpoints object of its name and namespace; an
\* ExternalName Service has exactly one relationship labeled "ExternalName",
\* to the stored node with the UID ToUID(externalName); these are the only
\* relationships the producer adds from the Service, and a Service of
\* another type gets no relationship from it.
ServiceProducerEdges ==
    (pc = "loop" /\ Len(log) > 0 /\ log[Len(log)].err = ""
     /\ log[Len(log)].obj.Kind = "Service")
    => LET obj == log[Len(log)].obj
           Labeled(label) ==
               {r.To.UID : r \in {q \in AllRelationships(Relationships) :
                                     q.From.UID = obj.UID /\ q.Type = label}}
           New == {e \in Edges(Relationships) \ Edges(prev.Relationships) :
                      e[1] = obj.UID}
           Same == {e.UID : e \in {q \in Range(ClusterEndpoints) :
                                      q.Namespace = obj.Namespace /\ q.Name = obj.Name}}
           External == ToUID(<<obj.Spec.ExternalName>>)
       IN  CASE obj.Spec.Type \in {"ClusterIP", "LoadBalancer"} ->
                    /\ Cardinality(Same) = 1
                    /\ Labeled("Endpoints") = Same
                    /\ Same \subseteq StoredUIDs(Nodes)
                    /\ Labeled("ExternalName") = {}
                    /\ New \subseteq {<<obj.UID, "Endpoints", e>> : e \in Same}
              [] obj.Spec.Type = "ExternalName" ->
                    /\ Labeled("ExternalName") = {External}
                    /\ External \in StoredUIDs(Nodes)
                    /\ Labeled("Endpoints") = {}
                    /\ New \subseteq {<<obj.UID, "ExternalName", External>>}
              [] OTHER ->
                    /\ New = {}
                    /\ Labeled("Endpoints") = {}
                    /\ Labeled("ExternalName") = {}

\* A LoadBalancer Service has just been linked to its Endpoints after an
\* ExternalName Service was linked to its external name.
ServicesLinked ==
    /\ pc = "loop"
    /\ Len(log) = 2
    /\ log[1].err = "" /\ log[1].obj.UID = "svc-3"
    /\ log[2].err = "" /\ log[2].obj.UID = "svc-5"
    /\ <<"svc-3", "ExternalName", ToUID(<<"example.com">>)>> \in Edges(Relationships)
    /\ <<"svc-5", "Endpoints", "ep-2">> \in Edges(Relationships)

\* C24: a Route whose target Service the live get finds, and whose Service
\* producer meets no failing Endpoints lookup, is processed without a failure
\* whatever the type of the Service, and the store then holds the
\* relationship route -> service labeled "Route" to the stored Service node.
RouteLinksFoundService ==
    LET Target(obj) == {s \in Range(ClusterServices) :
                           s.Namespace = obj.Namespace /\ s.Name = obj.Spec.To}
        Resolved(s) ==
            s.Spec.Type \in {"ClusterIP", "LoadBalancer"}
            => /\ "endpoints" \notin clientset.down
               /\ \E e \in Range(ClusterEndpoints) :
                      e.Namespace = s.Namespace /\ e.Name = s.Name
        Found(obj) == /\ obj.Kind = "Route"
                      /\ "services" \notin clientset.down
                      /\ Target(obj) # {}
                      /\ \A s \in Target(obj) : Resolved(s)
    IN  /\ pc = "panic" => ~Found(objs[idx + 1])
        /\ \A i \in DOMAIN log :
               Found(log[i].obj)
               => /\ log[i].err = ""
                  /\ \A s \in Target(log[i].obj) :
                        /\ s.UID \in StoredUIDs(Nodes)
                        /\ <<log[i].obj.UID, "Route", s.UID>> \in Edges(Relationships)

\* C25: an Ingress whose backends are all resolved (a Service the live get
\* finds, of any type, or a typed local resource reference) is processed
\* without a failure, and the store then holds, for every path, the stored
\* backend node and a relationship backend -> ingress, and for every rule the
\* Host node of its hostname and a relationship ingress -> host; an Ingress
\* with a backend that is neither a Service nor a resource reference is
\* processed with an error.
IngressBackendsAndHost ==
    LET Paths(obj) == UNION {Range(obj.Spec.Rules[k].Paths) : k \in DOMAIN obj.Spec.Rules}
        Hosts(obj) == {obj.Spec.Rules[k].Host : k \in DOMAIN obj.Spec.Rules}
        Target(obj, b) == {s \in Range(ClusterServices) :
                              s.Namespace = obj.Namespace /\ s.Name = b.Service.Name}
        Looked(s) ==
            s.Spec.Type \in {"ClusterIP", "LoadBalancer"}
            => /\ "endpoints" \notin clientset.down
               /\ \E e \in Range(ClusterEndpoints) :
                      e.Namespace = s.Namespace /\ e.Name = s.Name
        Resolved(obj, b) ==
            IF ~b.Service.Nil
            THEN /\ "services" \notin clientset.down
                 /\ Target(obj, b) # {}
                 /\ \A s \in Target(obj, b) : Looked(s)
            ELSE ~b.Resource.Nil
        Backends(obj, b) ==
            IF ~b.Service.Nil THEN {s.UID : s \in Target(obj, b)}
            ELSE {ToUID(<<b.Resource.APIGroup, b.Resource.Kind, b.Resource.Name>>)}
        Supported(obj) == /\ obj.Kind = "Ingress"
                          /\ \A b \in Paths(obj) : Resolved(obj, b)
        Unsupported(obj) == /\ obj.Kind = "Ingress"
                            /\ \E b \in Paths(obj) : b.Service.Nil /\ b.Resource.Nil
    IN  /\ pc = "panic" => ~Supported(objs[idx + 1])
        /\ \A i \in DOMAIN log :
               /\ Unsupported(log[i].obj) => log[i].err # ""
               /\ Supported(log[i].obj)
                  => /\ log[i].err = ""
                     /\ \A b \in Paths(log[i].obj) : \A u \in Backends(log[i].obj, b) :
                           /\ u \in StoredUIDs(Nodes)
                           /\ <<u, "Ingress", log[i].obj.UID>> \in Edges(Relationships)
                     /\ \A h \in Hosts(log[i].obj) :
                           /\ ToUID(<<h>>) \in StoredUIDs(Nodes)
                           /\ <<log[i].obj.UID, "Ingress", ToUID(<<h>>)>> \in Edges(Relationships)

\* C26: after a cluster Node object has been processed, each of its four
\* facts Architecture, Runtime, Kernel and OSImage has a stored node of that
\* category under ToUID(value) and a relationship node -> fact labeled with
\* the category, so that the Node has exactly four relationships with four
\* distinct labels, whatever the values and the order of the visit.
FourFactsPerNode ==
    \A i \in DOMAIN log :
        (log[i].obj.Kind = "Node" /\ log[i].obj.APIVersion = "v1")
        => LET obj == log[i].obj
               From == {e \in Edges(Relationships) : e[1] = obj.UID}
           IN  /\ log[i].err = ""
               /\ \A kind \in InfoKinds :
                     /\ \E n \in RecordsOf(Nodes, ToUID(<<obj.Spec[kind]>>)) : n.Kind = kind
                     /\ <<obj.UID, kind, ToUID(<<obj.Spec[kind]>>)>> \in From
               /\ Cardinality(From) = 4
               /\ {e[2] : e \in From} = InfoKinds

\* C27: after a Pod has been processed without an error, its node is stored
\* and every declared container has a stored Container node under
\* ToUID(podUID, containerName) with a relationship pod -> container labeled
\* "Container", one per container; no Container node is the target of the
\* "Container" relationships of two pods.
PodContainersLinked ==
    /\ \A i \in DOMAIN log :
           (log[i].obj.Kind = "Pod" /\ log[i].obj.APIVersion = "v1" /\ log[i].err = "")
           => LET pod == log[i].obj
                  Names == Range(pod.Spec.Containers)
                  Linked == {e \in Edges(Relationships) :
                                e[1] = pod.UID /\ e[2] = "Container"}
              IN  /\ \E n \in RecordsOf(Nodes, pod.UID) : n.Kind = "Pod"
                  /\ \A c \in Names :
                        /\ \E n \in RecordsOf(Nodes, ToUID(<<pod.UID, c>>)) :
                               n.Kind = "Container" /\ n.Name = c
                        /\ <<pod.UID, "Container", ToUID(<<pod.UID, c>>)>> \in Linked
                  /\ Cardinality(Linked) = Cardinality(Names)
    /\ \A e, f \in Edges(Relationships) :
           (e[2] = "Container" /\ f[2] = "Container" /\ e[3] = f[3]) => e[1] = f[1]

\* A Pod with two containers has been processed after a policy whose pod
\* list produced another Pod with a container of the same name.
TwoPodsWithContainerWeb ==
    /\ Len(log) = 2
    /\ log[2].obj.UID = "pod-a" /\ log[2].obj.Kind = "Pod" /\ log[2].err = ""
    /\ <<"pod-a", "Container", ToUID(<<"pod-a", "web">>)>> \in Edges(Relationships)
    /\ <<"pod-a", "Container", ToUID(<<"pod-a", "proxy">>)>> \in Edges(Relationships)
    /\ <<"pod-b", "Container", ToUID(<<"pod-b", "web">>)>> \in Edges(Relationships)

\* C28: an Endpoints object is processed without a failure, and right after
\* it the store holds, for every address with a target reference, the node
\* of the referenced object and a relationship endpoints -> target labeled
\* with the kind of the reference; the relationships from the Endpoints node
\* are exactly these, and the step stored no node besides the Endpoints node
\* and the referenced objects, so an address without a target reference adds
\* nothing.
EndpointsTargetsLinked ==
    LET Refs(obj) == {a.TargetRef : a \in {b \in Range(Flatten(obj.Spec.Subsets)) :
                                             ~b.TargetRef.Nil}}
        Processed(obj) == obj.Kind = "Endpoints" /\ obj.APIVersion = "v1"
    IN  /\ pc = "panic" => ~Processed(objs[idx + 1])
        /\ \A i \in DOMAIN log :
               Processed(log[i].obj)
               => /\ log[i].err = ""
                  /\ \A t \in Refs(log[i].obj) :
                        \E n \in RecordsOf(Nodes, t.UID) : n.Kind = t.Kind /\ n.Name = t.Name
                  /\ {e \in Edges(Relationships) : e[1] = log[i].obj.UID}
                        = {<<log[i].obj.UID, t.Kind, t.UID>> : t \in Refs(log[i].obj)}
        /\ (pc = "loop" /\ Len(log) > 0 /\ Processed(log[Len(log)].obj))
           => StoredUIDs(Nodes) \ StoredUIDs(prev.Nodes)
                 \subseteq {log[Len(log)].obj.UID}
                            \cup {t.UID : t \in Refs(log[Len(log)].obj)}

\* The Endpoints object with one address that names a pod and one address
\* without a target reference has been processed: the pod is its only target.
EndpointsWithBareAddress ==
    /\ Len(log) = 1
    /\ log[1].obj.UID = "ep-1"
    /\ \E a \in Range(Flatten(log[1].obj.Spec.Subsets)) : a.TargetRef.Nil
    /\ log[1].err = ""
    /\ {e \in Edges(Relationships) : e[1] = "ep-1"} = {<<"ep-1", "Pod", "pod-a">>}

\* C29: in every state of the store, the UIDs of both ends of every stored
\* relationship are UIDs of stored nodes, the relationships with a Namespace
\* node of a namespace-selector peer included.
ReferentialIntegrity ==
    \A r \in AllRelationships(Relationships) :
        /\ r.From.UID \in StoredUIDs(Nodes)
        /\ r.To.UID \in StoredUIDs(Nodes)

\* --------------------------------------------- the calls Graph.Node makes
MaxOwners == 2

RECURSIVE GraphNodeCounted(_, _, _, _)
RECURSIVE OwnerReferencesCounted(_, _, _, _, _, _)

\* The loop over obj.GetOwnerReferences() in a Graph.Node call of the given
\* level; c carries the graph, the number of Relationship calls made so far
\* and the deepest level on which Graph.Node has run.
OwnerReferencesCounted(c, obj, kind, node, i, level) ==
    IF i > Len(obj.OwnerReferences) THEN c
    ELSE LET ownerRef == obj.OwnerReferences[i]
             Link(o) ==
                 [g     |-> GraphRelationship(o.g, o.node, kind, node).g,
                  calls |-> c.calls + o.calls + 1,
                  depth |-> IF o.depth > c.depth THEN o.depth ELSE c.depth]
         IN  OwnerReferencesCounted(
                 Link(GraphNodeCounted(c.g,
                          FromAPIVersionAndKind(ownerRef.APIVersion, ownerRef.Kind),
                          ObjectMeta(ownerRef.UID, ownerRef.Name, obj.Namespace),
                          level + 1)),
                 obj, kind, node, i + 1, level)

\* Graph.Node run as a call of the given level (0 for the caller's call, one
\* more for every g.Node inside the owner loop): the graph and the *Node it
\* returns, the number of Relationship calls it and its nested calls make,
\* and the deepest level reached.
GraphNodeCounted(g, gvk, obj, level) ==
    LET cluster == ClusterOf(obj)
        ak      == ToAPIVersionAndKind(gvk)
        Record(prior) ==
            [APIVersion |-> ak[1], Kind |-> ak[2], Name |-> obj.Name,
             Namespace |-> obj.Namespace, UID |-> obj.UID,
             Labels |-> CarryForward(prior.Labels, obj.Labels),
             Annotations |-> CarryForward(prior.Annotations, obj.Annotations)]
        Done(c, node) ==
            [g |-> c.g, node |-> node, calls |-> c.calls, depth |-> c.depth]
        Store(nodes, node) ==
            IF GroupKindString(gvk) = "Namespace"
            THEN [g |-> [g EXCEPT !.Nodes = nodes], node |-> node,
                  calls |-> 0, depth |-> level]
            ELSE Done(OwnerReferencesCounted(
                          [g |-> [g EXCEPT !.Nodes =
                                     StoreNode(nodes, cluster, obj.Namespace,
                                               obj.UID, node)],
                           calls |-> 0, depth |-> level],
                          obj, ak[2], node, 1, level),
                      node)
        Upsert(nodes) ==
            Store(nodes, Record(Get(nodes[cluster][obj.Namespace], obj.UID,
                                    [Labels |-> EmptyMap, Annotations |-> EmptyMap])))
    IN  Upsert(EnsureMaps(g.Nodes, cluster, obj.Namespace))

\* The owner reference lists an object may carry: up to MaxOwners references
\* to u1 and u2, so that an object may name itself, the other object, or one
\* owner twice, and u1 and u2 may name each other.
OwnerLists ==
    UNION {[1..n -> {ReplicaSetRef(u) : u \in NativeUIDs}] : n \in 0..MaxOwners}

\* The objects handed to Graph.Node: a ReplicaSet of ns1 or a cluster-scoped
\* Namespace object, with any of the owner reference lists.
OwnedObjects ==
    {[UID |-> u, Name |-> NameOf(u), Namespace |-> ns, ClusterName |-> "",
      OwnerReferences |-> ow, Labels |-> EmptyMap, Annotations |-> EmptyMap] :
        u \in NativeUIDs, ns \in {"", "ns1"}, ow \in OwnerLists}

OwnedGVK(obj) ==
    IF obj.Namespace = "" THEN FromAPIVersionAndKind("v1", "Namespace")
    ELSE FromAPIVersionAndKind("apps/v1", "ReplicaSet")

\* g.Node(gvk, obj), with the calls it made recorded in last.
OwnedNodeCall(obj) ==
    /\ ncalls < MaxCalls
    /\ \E res \in {GraphNodeCounted(Graph(Nodes, Relationships), OwnedGVK(obj), obj, 0)} :
           /\ Nodes' = res.g.Nodes
           /\ Relationships' = res.g.Relationships
           /\ last' = [op |-> "OwnedNode", obj |-> obj, node |-> res.node,
                       calls |-> res.calls, depth |-> res.depth,
                       same |-> [g |-> res.g, node |-> res.node]
                                  = GraphNode(Graph(Nodes, Relationships),
                                              OwnedGVK(obj), obj)]
    /\ ncalls' = ncalls + 1
    /\ UNCHANGED <<handles, written, ingestVars, outVars>>

NextOwners == \E obj \in OwnedObjects : OwnedNodeCall(obj)

SpecOwners == Init /\ [][NextOwners]_vars

\* C30: a Graph.Node call returns for every object and every owner reference
\* list, with the store and the node Graph.Node is defined to leave; Graph.Node
\* runs at most one level below the caller's call, and the call makes exactly
\* as many Relationship calls as the object has owner references.
OwnerRecursionOneLevel ==
    last.op = "OwnedNode"
    => /\ last.same
       /\ last.depth <= 1
       /\ last.calls = Len(last.obj.OwnerReferences)

====
